---- MODULE Spec2Model ----
(***************************************************************************)
(* A model of the job-execution substrate of the lecture/meeting bot:      *)
(*   - the stage cache            (src/src/services/lecture_cache.py)      *)
(*   - the retry loops            (src/src/services/gemini.py, llm.py)     *)
(*   - the Gemini key rotation    (src/src/services/llm.py and callers)    *)
(*   - the video pipeline         (src/src/cogs/lecture/video_views.py)    *)
(*   - the segment plan           (src/src/services/video.py)              *)
(*   - the stored user keys       (src/src/services/config.py)             *)
(*                                                                         *)
(* The specifications share the variables:                                 *)
(*   Spec             the stage cache driven through its public functions  *)
(*   SpecRetry        one remote call inside a retry loop                  *)
(*   SpecKeys         the callers that use a user's Gemini keys            *)
(*   SpecPipeline     VideoLectureProcessor.process over the stage cache   *)
(*   SpecFallback     one summarize step across Gemini and GLM             *)
(*   SpecPlan         calculate_num_parts and split_video of one video     *)
(*   SpecFingerprint  the cache id of a triple submitted again and again   *)
(*   SpecConfig       get/add/remove/set of one user's Gemini keys         *)
(*   SpecFanout       the tasks process() starts and awaits, over its runs *)
(*   SpecRotation     the loops that rotate over one user's Gemini keys    *)
(*   SpecDigest       the digest of the summaries of the earlier parts     *)
(*   SpecSegments     the transcript split along the segment plan          *)
(*   SpecScheduler    the meeting scheduler and its two files              *)
(*                                                                         *)
(* Two modules the sources import are not among the sources                *)
(* (services/queue.py, services/gemini_keys.py); they are modelled from    *)
(* the written specification.  video_views.py:820 and :835 call            *)
(* video.calculate_num_parts with two positional arguments while the       *)
(* definition in services/video.py:53 accepts one: the two-parameter       *)
(* revision the orchestrator is written against is not among the sources,  *)
(* so the call (calculate_num_parts_call) is modelled from section 4.4 of  *)
(* the specification, which states the same size-only rule as              *)
(* video.py:53-62.  Read literally against video.py:53 the call raises     *)
(* TypeError on every run and nothing after line 835 executes.             *)
(***************************************************************************)
EXTENDS Integers, Sequences, FiniteSets, TLC

VARIABLES
    now,        \* time.time(), in seconds
    files,      \* data/lecture_cache/<cache_id>.json, per cache id
    ret,        \* the last cache call and what it returned
    lastSaved,  \* history: payload of the latest save_stage not followed by an explicit clear/delete
    lastWrite,  \* history: time of the latest save_stage / save_part_summary per cache id
    call,       \* the remote call running inside a retry loop (SpecRetry)
    pool,       \* GeminiKeyPool state and the key-rotation loop (SpecKeys)
    job,        \* VideoLectureProcessor.process (SpecPipeline)
    disk,       \* files outside the cache directory: /tmp media and data/transcripts
    step,       \* one summarize step across its two providers (SpecFallback)
    keys,       \* a user's stored Gemini key list, user_config (SpecConfig)
    calc,       \* the inputs and results of a function under evaluation (SpecPlan, SpecFingerprint, SpecDigest, SpecSegments)
    fan,        \* the tasks process() starts before the per-part loop, over its runs (SpecFanout)
    rot,        \* one user's key pool and the jobs that rotate over it (SpecRotation)
    sched       \* the scheduler's two files and its loop, run_scheduler (SpecScheduler)

vars == <<now, files, ret, lastSaved, lastWrite, call, pool, job, disk, step, keys, calc, fan, rot, sched>>

----------------------------------------------------------------------------
(* Bounds of the model *)

TickSeconds == 3601
MaxNow == 7202

(* Program constants *)

CACHE_EXPIRY_SECONDS == 7200

----------------------------------------------------------------------------
(* Stage names are kept as their "_"-separated tokens, so that            *)
(* str.startswith("transcript") is a test on the name and not a label.    *)

KeyHash == "k1"   \* hashlib.md5(api_key.encode()).hexdigest()[:8] of the user's AssemblyAI key

VideoStage == <<"video">>
SlidesStage == <<"slides">>
SegmentsStage == <<"segments">>
MergeStage == <<"merge">>
SlideMatchStage == <<"slide_match">>
TranscriptStage == <<"transcript", KeyHash>>
UploadStage == <<"assemblyai", "upload", KeyHash>>
TranscriptIdStage == <<"assemblyai", "transcript", "id", KeyHash>>

StageNames ==
    {VideoStage, SlidesStage, SegmentsStage, MergeStage, SlideMatchStage,
     TranscriptStage, UploadStage, TranscriptIdStage}

\* The stages that hold a result of the transcription step.
TranscriptionStages == {TranscriptStage, UploadStage, TranscriptIdStage}

StartsWithTranscript(name) == name[1] = "transcript"

CacheIds == {"fp1", "fp2"}
PartNums == 1..3

NoData == [none |-> TRUE]
AbsentStage == [present |-> FALSE, saved_at |-> 0, data |-> NoData]
AbsentPart == [present |-> FALSE, summary |-> NoData, start_seconds |-> 0]

NoCache ==
    [exists |-> FALSE, created_at |-> 0, updated_at |-> 0,
     stages |-> [n \in StageNames |-> AbsentStage],
     parts |-> [k \in PartNums |-> AbsentPart]]

NewCache(t) == [NoCache EXCEPT !.exists = TRUE, !.created_at = t, !.updated_at = t]

----------------------------------------------------------------------------
(* lecture_cache.py *)

has_transcript(cache) ==
    \E n \in StageNames : cache.stages[n].present /\ StartsWithTranscript(n)

\* The age the expiry test of get_pipeline_cache looks at.
CacheAge(cache, t) == t - cache.created_at

\* get_pipeline_cache unlinks the file and returns None.
ExpiredOnRead(cache, t) ==
    /\ cache.exists
    /\ ~has_transcript(cache)
    /\ CacheAge(cache, t) > CACHE_EXPIRY_SECONDS

\* The value get_pipeline_cache returns (NoCache stands for None).
get_pipeline_cache(fs, id, t) ==
    IF fs[id].exists /\ ~ExpiredOnRead(fs[id], t) THEN fs[id] ELSE NoCache

\* The cache directory after get_pipeline_cache.
FilesAfterRead(fs, id, t) ==
    IF ExpiredOnRead(fs[id], t) THEN [fs EXCEPT ![id] = NoCache] ELSE fs

\* A save_stage that keeps a stage it already holds.
save_stage_first_wins(fs, id, name, data, t) ==
    LET cache == IF fs[id].exists THEN fs[id] ELSE NewCache(t)
    IN [fs EXCEPT ![id] =
            [cache EXCEPT !.updated_at = t,
                          !.stages[name] = IF @.present THEN @
                                           ELSE [present |-> TRUE, saved_at |-> t,
                                                 data |-> data]]]

save_stage(fs, id, name, data, t) ==
    LET cache == IF fs[id].exists THEN fs[id] ELSE NewCache(t)
    IN [fs EXCEPT ![id] =
            [cache EXCEPT !.updated_at = t,
                          !.stages[name] = [present |-> TRUE, saved_at |-> t, data |-> data]]]

\* What a caller gets when the function raises instead of returning.
Raised(exception) == [raised |-> exception]

\* A get_stage without "if not cache: return None" that indexes
\* cache["stages"][stage_name].
get_stage_unguarded(fs, id, name, t) ==
    LET cache == get_pipeline_cache(fs, id, t)
    IN  IF ~cache.exists THEN Raised("TypeError")
        ELSE IF ~cache.stages[name].present THEN Raised("KeyError")
        ELSE cache.stages[name]

\* get_stage: None (AbsentStage) when there is no cache, stages.get(stage_name)
\* otherwise, which is None for a name that is not a key.
get_stage(fs, id, name, t) == get_pipeline_cache(fs, id, t).stages[name]

\* A clear_stage that empties cache["stages"].
clear_stage_all(fs, id, name, t) ==
    IF fs[id].exists /\ fs[id].stages[name].present
    THEN [fs EXCEPT ![id] = [@ EXCEPT !.updated_at = t,
                                      !.stages = [n \in StageNames |-> AbsentStage]]]
    ELSE fs

clear_stage(fs, id, name, t) ==
    IF fs[id].exists /\ fs[id].stages[name].present
    THEN [fs EXCEPT ![id] = [@ EXCEPT !.updated_at = t, !.stages[name] = AbsentStage]]
    ELSE fs

\* A save_part_summary that writes a record of its own part alone.
save_part_summary_alone(fs, id, k, summary, start, t) ==
    [fs EXCEPT ![id] =
        [NewCache(t) EXCEPT !.parts[k] = [present |-> TRUE, summary |-> summary,
                                          start_seconds |-> start]]]

save_part_summary(fs, id, k, summary, start, t) ==
    LET cache == IF fs[id].exists THEN fs[id] ELSE NewCache(t)
    IN [fs EXCEPT ![id] =
            [cache EXCEPT !.updated_at = t,
                          !.parts[k] = [present |-> TRUE, summary |-> summary,
                                        start_seconds |-> start]]]

get_cached_parts(fs, id, t) == get_pipeline_cache(fs, id, t).parts

clear_pipeline_cache(fs, id) == [fs EXCEPT ![id] = NoCache]

\* The test cleanup_expired_caches applies to each file.
ExpiredOnSweep(cache, t) ==
    cache.exists /\ t - cache.created_at > CACHE_EXPIRY_SECONDS

cleanup_expired_caches(fs, t) ==
    [id \in CacheIds |-> IF ExpiredOnSweep(fs[id], t) THEN NoCache ELSE fs[id]]

----------------------------------------------------------------------------
(* Spec: the stage cache driven through its public functions.              *)

\* The calls the environment makes: a plain stage and two transcription stages
\* of fp1, and a plain stage of a second fingerprint.
ApiStages == {VideoStage, TranscriptStage, TranscriptIdStage}
ApiPayloads == {[v |-> "p1"], [v |-> "p2"]}
ApiSaves ==
    ({"fp1"} \X {VideoStage} \X ApiPayloads)
        \cup ({"fp1"} \X {TranscriptStage, TranscriptIdStage} \X {[v |-> "p1"]})
        \cup ({"fp2"} \X {VideoStage} \X {[v |-> "p1"]})
ApiReads == ({"fp1"} \X ApiStages) \cup ({"fp2"} \X {VideoStage})
ApiParts == {1}
ApiSummaries == {"s1"}

NoRet == [op |-> "none", id |-> "fp1", name |-> VideoStage, val |-> AbsentStage]

IdleCall ==
    [fn |-> "none", pc |-> "idle", attempt |-> 0, outcomes |-> <<>>, sleeps |-> <<>>,
     last_error |-> "none", surfaced |-> "none"]

CacheInit ==
    /\ now = 0
    /\ files = [id \in CacheIds |-> NoCache]
    /\ ret = NoRet
    /\ lastSaved = [id \in CacheIds |-> [n \in StageNames |-> NoData]]
    /\ lastWrite = [id \in CacheIds |-> 0]

Tick ==
    /\ now < MaxNow
    /\ now' = now + TickSeconds
    /\ ret' = NoRet
    /\ UNCHANGED <<files, lastSaved, lastWrite>>

\* History kept beside the cache: what an explicit clear or delete forgets.
ForgetAll(ls, id) == [ls EXCEPT ![id] = [n \in StageNames |-> NoData]]

SaveStage(id, name, data) ==
    /\ files' = save_stage(files, id, name, data, now)
    /\ ret' = NoRet
    /\ lastSaved' = [lastSaved EXCEPT ![id][name] = data]
    /\ lastWrite' = [lastWrite EXCEPT ![id] = now]
    /\ UNCHANGED now

GetStage(id, name) ==
    /\ files' = FilesAfterRead(files, id, now)
    /\ ret' = [op |-> "get_stage", id |-> id, name |-> name,
               val |-> get_stage(files, id, name, now)]
    /\ UNCHANGED <<now, lastSaved, lastWrite>>

\* ret keeps whether the stage was there before the call.
ClearStage(id, name) ==
    /\ files' = clear_stage(files, id, name, now)
    /\ ret' = [op |-> "clear_stage", id |-> id, name |-> name,
               val |-> [AbsentStage EXCEPT !.present = files[id].stages[name].present]]
    /\ lastSaved' = [lastSaved EXCEPT ![id][name] = NoData]
    /\ UNCHANGED <<now, lastWrite>>

SavePartSummary(id, k, summary) ==
    /\ files' = save_part_summary(files, id, k, summary, 0, now)
    /\ ret' = NoRet
    /\ lastWrite' = [lastWrite EXCEPT ![id] = now]
    /\ UNCHANGED <<now, lastSaved>>

GetCachedParts(id) ==
    /\ files' = FilesAfterRead(files, id, now)
    /\ ret' = NoRet
    /\ UNCHANGED <<now, lastSaved, lastWrite>>

ClearPipelineCache(id) ==
    /\ files[id].exists
    /\ files' = clear_pipeline_cache(files, id)
    /\ ret' = NoRet
    /\ lastSaved' = ForgetAll(lastSaved, id)
    /\ UNCHANGED <<now, lastWrite>>

CleanupExpiredCaches ==
    /\ files' = cleanup_expired_caches(files, now)
    /\ ret' = NoRet
    /\ lastSaved' = [id \in CacheIds |->
                        IF ExpiredOnSweep(files[id], now)
                        THEN [n \in StageNames |-> NoData] ELSE lastSaved[id]]
    /\ UNCHANGED <<now, lastWrite>>

\* What the cache functions never touch.
nonCache == <<call, pool, job, disk, step, keys, calc, fan, rot, sched>>

NoPool == [none |-> TRUE]
NoJob == [none |-> TRUE]
NoDisk == [none |-> TRUE]
NoStep == [none |-> TRUE]
NoKeys == [none |-> TRUE]
NoCalc == [none |-> TRUE]
NoFan == [none |-> TRUE]
NoRot == [none |-> TRUE]
NoSched == [none |-> TRUE]

\* The variables of the specifications written further down, at rest.
Unused == step = NoStep /\ keys = NoKeys /\ calc = NoCalc /\ fan = NoFan /\ rot = NoRot /\ sched = NoSched

Init ==
    /\ CacheInit
    /\ call = IdleCall
    /\ pool = NoPool
    /\ job = NoJob
    /\ disk = NoDisk
    /\ Unused

Next ==
    \/ Tick /\ UNCHANGED nonCache
    \/ \E c \in ApiSaves : SaveStage(c[1], c[2], c[3]) /\ UNCHANGED nonCache
    \/ \E c \in ApiReads : GetStage(c[1], c[2]) /\ UNCHANGED nonCache
    \/ \E c \in ApiReads : ClearStage(c[1], c[2]) /\ UNCHANGED nonCache
    \/ \E k \in ApiParts, s \in ApiSummaries :
            SavePartSummary("fp1", k, s) /\ UNCHANGED nonCache
    \/ GetCachedParts("fp1") /\ UNCHANGED nonCache
    \/ \E id \in CacheIds : ClearPipelineCache(id) /\ UNCHANGED nonCache
    \/ CleanupExpiredCaches /\ UNCHANGED nonCache

Spec == Init /\ [][Next]_vars

----------------------------------------------------------------------------
(* Claims about the stage cache (checked under Spec)                       *)

\* A cache that holds a result of the transcription step.
HoldsTranscription(cache) ==
    cache.exists /\ \E n \in TranscriptionStages : cache.stages[n].present

\* C1: a get_stage issued after save_stage, with no clear_stage or
\* delete of that cache in between, returns the saved payload.  Stated for
\* reads made while less than the TTL has passed since the last write, so
\* that no reading of the expiry policy excuses a miss.
C1_GetAfterSaveReturnsPayload ==
    (/\ ret.op = "get_stage"
     /\ lastSaved[ret.id][ret.name] # NoData
     /\ now - lastWrite[ret.id] < CACHE_EXPIRY_SECONDS)
        => (ret.val.present /\ ret.val.data = lastSaved[ret.id][ret.name])

\* C5: a cache holding a transcription-stage result written by the pipeline
\* (the assemblyai_upload_* and assemblyai_transcript_id_* stages of
\* transcribe_file) is never expired by a read, however old it is.
C5_TranscriptionCacheSurvivesRead ==
    (/\ ret.op = "get_stage"
     /\ \E n \in {UploadStage, TranscriptIdStage} : lastSaved[ret.id][n] # NoData)
        => files[ret.id].exists

\* C6: the sweep never deletes a cache that contains a transcription stage.
C6_SweepKeepsTranscriptionCaches ==
    [][CleanupExpiredCaches =>
            \A id \in CacheIds : HoldsTranscription(files[id]) => files'[id].exists]_vars

\* C7: expiry is measured from inactivity: a cache is not removed by expiry
\* while less than the TTL has elapsed since the most recent stage or
\* segment write to it.
C7_ExpiryMeasuredFromLastWrite ==
    [][\A id \in CacheIds :
            (files[id].exists /\ ~files'[id].exists /\ ~ClearPipelineCache(id))
                => now - lastWrite[id] >= CACHE_EXPIRY_SECONDS]_vars

----------------------------------------------------------------------------
(* SpecRetry: one remote call inside a retry loop.                         *)
(*   gemini.summarize_meeting       gemini.py:250-284                      *)
(*   gemini.summarize_transcript    gemini.py:319-358                      *)
(*   llm.summarize_transcript, GLM  llm.py:314-361                         *)

retries == 3

\* What the provider can answer to one attempt.
TransientErrors == {"503 unavailable", "timed out"}
FatalErrors == {"400 invalid argument"}
RateErrors == {"429 quota exceeded"}
Errors == TransientErrors \cup FatalErrors \cup RateErrors
Outcomes == {"ok", "empty"} \cup Errors

SummarizeMeeting == "gemini.summarize_meeting"
SummarizeTranscript == "gemini.summarize_transcript"
GlmSummarize == "llm.summarize_transcript:glm"
RetryLoops == {SummarizeMeeting, SummarizeTranscript, GlmSummarize}

\* backoff = 5 * (attempt + 1), attempt counted from 0
backoff(attempt) == 5 * (attempt + 1)

\* A loop that would also sleep after its last attempt.
sleeps_after_every(attempt) == attempt < retries

\* if attempt < retries - 1: await asyncio.sleep(backoff)
sleeps_after(attempt) == attempt < retries - 1

\* Does this answer end the loop with a returned summary?
\* summarize_meeting returns response.text as it is; the two others test it.
Returns(fn, outcome) ==
    \/ outcome = "ok"
    \/ outcome = "empty" /\ fn = SummarizeMeeting

\* last_error after an attempt that did not return.
LastErrorAfter(fn, outcome, last_error) ==
    IF outcome \in Errors THEN outcome
    ELSE IF fn = SummarizeTranscript THEN "Empty response"
    ELSE last_error

\* What reaches the caller once the loop is exhausted: the gemini functions
\* raise Exception("... failed after 3 attempts: <last_error>"), the GLM loop
\* returns a warning string (the empty-summary text, or last_error[:200]).
SurfacedAfter(fn, outcome, last_error) ==
    IF fn = GlmSummarize /\ outcome = "empty" THEN "empty summary"
    ELSE LastErrorAfter(fn, outcome, last_error)

StartCall(fn) ==
    /\ call.pc = "idle"
    /\ call' = [IdleCall EXCEPT !.fn = fn, !.pc = "calling",
                                !.last_error = IF fn = GlmSummarize THEN "Unknown error"
                                               ELSE "none"]

\* One pass of "for attempt in range(retries)": the call, the handling of its
\* answer and the sleep that follows it.
Attempt(outcome) ==
    /\ call.pc = "calling"
    /\ LET a == call.attempt
           outs == Append(call.outcomes, outcome)
           le == LastErrorAfter(call.fn, outcome, call.last_error)
       IN  IF Returns(call.fn, outcome)
           THEN call' = [call EXCEPT !.pc = "returned", !.outcomes = outs,
                                     !.surfaced = outcome]
           ELSE call' = [call EXCEPT
                    !.outcomes = outs,
                    !.last_error = le,
                    !.sleeps = IF sleeps_after(a) THEN Append(@, backoff(a)) ELSE @,
                    !.attempt = a + 1,
                    !.pc = IF a + 1 < retries THEN "calling" ELSE "failed",
                    !.surfaced = IF a + 1 < retries THEN "none"
                                 ELSE SurfacedAfter(call.fn, outcome, call.last_error)]

\* The caller takes the result; the next call can start.
Finish ==
    /\ call.pc \in {"returned", "failed"}
    /\ call' = IdleCall

nonRetry == <<now, files, ret, lastSaved, lastWrite, pool, job, disk, step, keys, calc, fan, rot, sched>>

InitRetry ==
    /\ CacheInit
    /\ call = IdleCall
    /\ pool = NoPool
    /\ job = NoJob
    /\ disk = NoDisk
    /\ Unused

NextRetry ==
    \/ \E fn \in RetryLoops : StartCall(fn) /\ UNCHANGED nonRetry
    \/ \E o \in Outcomes : Attempt(o) /\ UNCHANGED nonRetry
    \/ Finish /\ UNCHANGED nonRetry

SpecRetry == InitRetry /\ [][NextRetry]_vars

----------------------------------------------------------------------------
(* Claims about the retry loops (checked under SpecRetry)                  *)

OnlyTransient(outs) == \A i \in 1..Len(outs) : outs[i] \in TransientErrors

C10_FatalAbortsImmediately ==
    \A i \in 1..Len(call.outcomes) :
        call.outcomes[i] \in FatalErrors =>
            /\ i = Len(call.outcomes)
            /\ Len(call.sleeps) < i
            /\ call.pc = "failed"

----------------------------------------------------------------------------
(* SpecKeys: the callers that use a user's personal Gemini keys.           *)
(* services/gemini_keys.py (GeminiKeyPool) is not among the sources; the   *)
(* pool is modelled from section 4.2 of the specification, its callers     *)
(* from their code.                                                        *)

DailyCap == 2      \* the provider's daily cap per key, scaled down
MaxCalls == 4      \* remote calls followed per day

\* config_service.get_user_gemini_apis(user_id)
user_gemini_keys == <<"key1", "key2">>
KeySet == {user_gemini_keys[i] : i \in 1..Len(user_gemini_keys)}

\* config_service.get_user_gemini_api(user_id): keys[0]
get_user_gemini_api == user_gemini_keys[1]

NoKey == "none"

IdlePool ==
    [usage |-> [k \in KeySet |-> 0],        \* usage_count per key
     cooled |-> [k \in KeySet |-> FALSE],   \* cooldown_until lies in the future
     succeeded |-> [k \in KeySet |-> 0],    \* history: successful remote calls made with the key
     failed |-> [k \in KeySet |-> 0],       \* history: failed calls made with the key
     pc |-> "idle",                         \* llm.summarize_transcript: "idle" or "rotating"
     attempt |-> 0]                         \* its loop index

\* First key in pool order that is not cooling down and is below the cap.
get_available_key(p) ==
    LET ok == {i \in 1..Len(user_gemini_keys) :
                  /\ ~p.cooled[user_gemini_keys[i]]
                  /\ p.usage[user_gemini_keys[i]] < DailyCap}
    IN  IF ok = {} THEN NoKey
        ELSE user_gemini_keys[CHOOSE i \in ok : \A j \in ok : i <= j]

mark_rate_limited(p, key) == [p EXCEPT !.cooled[key] = TRUE]

increment_count(p, key) == [p EXCEPT !.usage[key] = @ + 1]

Calls(p) ==
    LET RECURSIVE Sum(_)
        Sum(i) == IF i = 0 THEN 0
                  ELSE Sum(i - 1) + p.succeeded[user_gemini_keys[i]]
                                  + p.failed[user_gemini_keys[i]]
    IN  Sum(Len(user_gemini_keys))

\* "429" in error_str or "rate" in error_str or "quota" in error_str
IsRateLimit(error) == error \in RateErrors

\* llm.summarize_transcript is entered with the user's keys.
StartSummarize ==
    /\ pool.pc = "idle"
    /\ pool' = [pool EXCEPT !.pc = "rotating", !.attempt = 0]

\* One pass of "for attempt in range(len(user_gemini_keys))" in
\* llm.summarize_transcript; outcome is how gemini.summarize_transcript ends:
\* "ok" (a summary) or the error it raises after its own attempts.
RotationStep(outcome) ==
    /\ pool.pc = "rotating"
    /\ LET key == get_available_key(pool)
       IN  IF pool.attempt >= Len(user_gemini_keys) \/ key = NoKey
           THEN \* loop over, or "break": fall through to GLM
                pool' = [pool EXCEPT !.pc = "idle", !.attempt = 0]
           ELSE /\ Calls(pool) < MaxCalls
                /\ IF outcome = "ok"
                   THEN pool' = [increment_count(pool, key) EXCEPT
                                    !.succeeded[key] = @ + 1,
                                    !.pc = "idle", !.attempt = 0]
                   ELSE IF IsRateLimit(outcome)
                   THEN pool' = [mark_rate_limited(pool, key) EXCEPT
                                    !.failed[key] = @ + 1,
                                    !.attempt = @ + 1]
                   ELSE pool' = [pool EXCEPT !.failed[key] = @ + 1,
                                             !.pc = "idle", !.attempt = 0]

\* VideoLectureProcessor.process, one segment (video_views.py:1119-1138):
\* gemini.upload_video and gemini.generate_lecture_summary with
\* api_key=user_gemini_key, the first key of the user.
PipelineSegment(outcome) ==
    /\ Calls(pool) + 2 <= MaxCalls
    /\ LET key == get_user_gemini_api
       IN  pool' = [pool EXCEPT
                !.succeeded[key] = @ + (CASE outcome = "ok" -> 2
                                         [] outcome = "generate failed" -> 1
                                         [] OTHER -> 0),
                !.failed[key] = @ + (IF outcome = "ok" THEN 0 ELSE 1)]

\* GeminiConfigView.test_all_button: every key is tested, a key that answers
\* is counted.
TestAll(answers) ==
    /\ Calls(pool) + Len(user_gemini_keys) <= MaxCalls
    /\ pool' = [pool EXCEPT
            !.usage = [k \in KeySet |-> IF answers[k] THEN @[k] + 1 ELSE @[k]],
            !.succeeded = [k \in KeySet |-> IF answers[k] THEN @[k] + 1 ELSE @[k]],
            !.failed = [k \in KeySet |-> IF answers[k] THEN @[k] ELSE @[k] + 1]]

\* The daily reset boundary: every key is available again, counts restart.
DailyReset ==
    /\ pool.pc = "idle"
    /\ pool # IdlePool
    /\ pool' = IdlePool

nonKeys == <<now, files, ret, lastSaved, lastWrite, call, job, disk, step, keys, calc, fan, rot, sched>>

InitKeys ==
    /\ CacheInit
    /\ call = IdleCall
    /\ pool = IdlePool
    /\ job = NoJob
    /\ disk = NoDisk
    /\ Unused

NextKeys ==
    \/ StartSummarize /\ UNCHANGED nonKeys
    \/ \E o \in {"ok"} \cup Errors \cup {"Empty response"} :
            RotationStep(o) /\ UNCHANGED nonKeys
    \/ \E o \in {"ok", "upload failed", "generate failed"} :
            PipelineSegment(o) /\ UNCHANGED nonKeys
    \/ \E a \in [KeySet -> BOOLEAN] : TestAll(a) /\ UNCHANGED nonKeys
    \/ DailyReset /\ UNCHANGED nonKeys

SpecKeys == InitKeys /\ [][NextKeys]_vars

----------------------------------------------------------------------------
(* Claims about the key pool (checked under SpecKeys)                      *)

\* C8: increment_count is applied exactly once for every successful remote
\* call made with a key and never for a failed one: each key's usage_count
\* equals the number of successful calls made with it since the last reset.
C8_UsageCountsSuccessfulCalls ==
    \A k \in KeySet : pool.usage[k] = pool.succeeded[k]

----------------------------------------------------------------------------
(* SpecPipeline: VideoLectureProcessor.process over the stage cache.       *)
(* One fingerprint (Fp) is followed through its submissions.  Wall-clock   *)
(* time passes in Tick steps between the steps of a run; asyncio.sleep is  *)
(* accounted in job.slept.  The user has a Gemini key.  The two tasks of   *)
(* asyncio.gather and the AssemblyAI task are run one after the other      *)
(* (split, slides, transcription); a task whose sibling raised is not      *)
(* followed further, and the outputs of a failed ffmpeg run are ignored.   *)

MaxRuns == 2               \* submissions of the fingerprint that are followed

RATE_LIMIT_WAIT == 60
MAX_PART_SIZE_MB == 380

Fp == "fp1"                \* lecture_cache.generate_pipeline_id(url, slides_url, user_id)
MB == 1024 * 1024

\* The videos submitted: (size, duration) as get_video_info reports them,
\* the duration a float (see fl below) counted in units of its smallest step.
Videos ==
    {[size_bytes |-> 50 * MB, duration |-> 40],
     [size_bytes |-> 900 * MB, duration |-> 96]}

\* A submission: the video, whether the user has an AssemblyAI key, whether
\* a slides URL was given (the submissions followed have at most one of the two).
Configs ==
    {c \in [video : Videos, aai_key : BOOLEAN, slides : BOOLEAN] :
        ~(c.aai_key /\ c.slides)}

\* A calculate_num_parts whose thresholds are exclusive.
calculate_num_parts_exclusive(size_bytes) ==
    IF size_bytes < MAX_PART_SIZE_MB * MB THEN 1
    ELSE IF size_bytes < MAX_PART_SIZE_MB * 2 * MB THEN 2
    ELSE 3

\* video.calculate_num_parts(size_bytes); size_mb <= n is compared on bytes.
calculate_num_parts(size_bytes) ==
    IF size_bytes <= MAX_PART_SIZE_MB * MB THEN 1
    ELSE IF size_bytes <= MAX_PART_SIZE_MB * 2 * MB THEN 2
    ELSE 3

\* The call video.calculate_num_parts(info.size_bytes, info.duration) of the
\* orchestrator: the number of parts is planned from the size alone (1, 2 or
\* at most 3), the duration only sizes the windows.
calculate_num_parts_call(size_bytes, duration) == calculate_num_parts(size_bytes)

VideoPath == "video"                               \* /tmp/lecture_<cache_id>.mp4
PartPath(i) == <<"part1", "part2", "part3">>[i]    \* /tmp/lecture_<cache_id>_part<i>.mp4

\* Durations are Python floats: binary floating point, round to nearest,
\* ties to even, the mantissa narrowed from 53 bits to MantissaBits. A float
\* is the natural number of smallest steps it holds.
MantissaBits == 3

RECURSIVE Pow2(_)
Pow2(n) == IF n = 0 THEN 1 ELSE 2 * Pow2(n - 1)

\* The exponent of the float nearest below a/b: the least e >= from with
\* a/b < 2^(MantissaBits + e).
RECURSIVE ExponentOf(_, _, _)
ExponentOf(a, b, from) ==
    IF a < Pow2(MantissaBits + from) * b THEN from ELSE ExponentOf(a, b, from + 1)

\* a/b rounded to an integer, ties to the even one.
RoundHalfEven(a, b) ==
    LET q == a \div b
        r == a % b
    IN  IF 2 * r < b THEN q
        ELSE IF 2 * r > b THEN q + 1
        ELSE IF q % 2 = 0 THEN q ELSE q + 1

\* The float nearest to the rational a/b.
fl(a, b) ==
    LET e == ExponentOf(a, b, 0)
    IN  RoundHalfEven(a, b * Pow2(e)) * Pow2(e)

\* The size of one step of the mantissa at x.
ulp(x) == Pow2(ExponentOf(x, 1, 0))

float_div(x, n) == fl(x, n)          \* x / n
float_mul(i, x) == fl(i * x, 1)      \* i * x
float_add(x, y) == fl(x + y, 1)      \* x + y

\* A split_video whose windows start one window late (start = (i+1) * part_duration).
split_video_late(input_path, num_parts, duration) ==
    LET part_duration == float_div(duration, num_parts)
    IN  [i \in 1..num_parts |->
            [path |-> PartPath(i), start_seconds |-> float_mul(i, part_duration),
             duration |-> part_duration]]

\* video.split_video: the video itself when num_parts <= 1, else num_parts
\* windows of part_duration = info.duration / num_parts, window i (from 0)
\* starting at i * part_duration.
split_video(input_path, num_parts, duration) ==
    IF num_parts <= 1
    THEN <<[path |-> input_path, start_seconds |-> 0, duration |-> duration]>>
    ELSE LET part_duration == float_div(duration, num_parts)
         IN  [i \in 1..num_parts |->
                [path |-> PartPath(i),
                 start_seconds |-> float_mul(i - 1, part_duration),
                 duration |-> part_duration]]

\* The single part of split_video_task when num_parts <= 1: the video itself.
single_part(video_path, duration) ==
    <<[path |-> video_path, start_seconds |-> 0, duration |-> duration]>>

PathsOf(parts) == {parts[i].path : i \in 1..Len(parts)}

\* The transcript AssemblyAI returns for the video ("none": no transcript).
TheTranscript == "transcript of the video"

\* assemblyai_transcript.split_transcript_by_time, the text of window i;
\* the empty text for every part when there is no transcript.
transcript_segment(transcript, parts, i) ==
    IF transcript = "none" THEN <<>>
    ELSE <<"text", parts[i].start_seconds, parts[i].start_seconds + parts[i].duration>>

\* self.transcript or ""
full_transcript(self_transcript) ==
    IF self_transcript = "none" THEN "" ELSE self_transcript

\* VideoLectureProcessor._condense_summaries(summaries): the heading and
\* bold-bullet lines of the summaries, in list order, cut once they pass
\* max_chars; a digest that is a function of the list it is given.
condense_summaries(summaries) == [digest_of |-> summaries]

\* A PART_N prompt whose context is the previous part's summary alone.
Prompt_last_only(part_num, start_seconds, segment, summaries) ==
    [part |-> IF part_num = 1 THEN "PART1" ELSE "PART_N",
     start_time |-> IF part_num = 1 THEN 0 ELSE start_seconds,
     transcript_segment |-> IF segment = <<>> THEN <<"(no transcript)">> ELSE segment,
     previous_context |-> IF part_num = 1 THEN <<>>
                          ELSE condense_summaries(<<summaries[Len(summaries)]>>)]

\* prompts.GEMINI_LECTURE_PROMPT_PART1 / _PART_N, filled in.
Prompt(part_num, start_seconds, segment, summaries) ==
    [part |-> IF part_num = 1 THEN "PART1" ELSE "PART_N",
     start_time |-> IF part_num = 1 THEN 0 ELSE start_seconds,
     transcript_segment |-> IF segment = <<>> THEN <<"(no transcript)">> ELSE segment,
     previous_context |-> IF part_num = 1 THEN <<>> ELSE condense_summaries(summaries)]

\* The generative provider, a function of what it is sent.
generate_lecture_summary(path, prompt) == [summary_of |-> prompt, video |-> path]
merge_summaries(summaries, transcript_text) ==
    [merge_of |-> summaries, full_transcript |-> transcript_text]

----------------------------------------------------------------------------
(* The processor and the files it works on *)

NoParts == [k \in PartNums |-> AbsentPart]
NoInfo == [size_bytes |-> 0, duration |-> 0]

\* A call that leaves the process, as <<kind, part number or 0>>.
CallDownload == <<"download", 0>>
CallDownloadSlides == <<"download_slides", 0>>
CallFetchBackup == <<"fetch_backup", 0>>
CallAaiUpload == <<"aai_upload", 0>>
CallAaiStart == <<"aai_start", 0>>
CallAaiPoll == <<"aai_poll", 0>>
CallArchive == <<"archive_upload", 0>>
CallUpload(k) == <<"upload", k>>
CallGenerate(k) == <<"generate", k>>
CallMerge == <<"merge", 0>>

\* VideoLectureProcessor.__init__ and the locals of process(); the fields
\* after `slept` are history.
NewJob(cfg) ==
    [pc |-> "idle", run |-> 0, cfg |-> cfg, slot |-> FALSE,
     cached_parts |-> NoParts, info |-> NoInfo, num_parts |-> 0, parts |-> <<>>,
     aai |-> "none", transcript |-> "none", self_transcript |-> "none",
     slide_images |-> FALSE, i |-> 1, summaries |-> <<>>, final |-> NoData,
     in_flight |-> {},          \* generate_lecture_summary calls awaited
     temp_files |-> {}, closed |-> FALSE,
     calls |-> {}, slept |-> 0,
     merged |-> 0,              \* merge_summaries calls made by this run
     match |-> "none",          \* slide matching of this run: none, cached, failed
     gen_last |-> -1,           \* job.slept at the last generation call of this run
     gen_prev |-> -1,           \* job.slept at the generation call before it
     resumed |-> FALSE,         \* the previous run of this fingerprint failed
     begin_idle |-> 0,          \* time since the last cache write, at the start of the run
     begin_parts |-> {},        \* segment results in the cache at the start of the run
     begin_merge |-> FALSE,     \* merge result in the cache at the start of the run
     begin_all_cached |-> FALSE,
     written_stages |-> {},     \* stages written and not cleared since the last completed run
     written_parts |-> {},      \* segment results written since then
     used |-> {},               \* transcripts the generation calls since then were given
     acquired |-> 0,            \* history: acquire_video_slot() calls that returned
     released |-> 0]            \* history: release_video_slot() calls

NewDisk == [exists |-> {}, images |-> FALSE, stored |-> "none"]

\* services/queue: one slot for video jobs.
acquire_video_slot(j) == [j EXCEPT !.slot = TRUE, !.acquired = @ + 1]
release_video_slot(j) == [j EXCEPT !.slot = FALSE, !.released = @ + 1]

\* video.cleanup_files
cleanup_files(d, paths) == [d EXCEPT !.exists = @ \ paths]

\* An except path that shows the error view and keeps the slot.
FailHoldingSlot(j) == [j EXCEPT !.pc = "failed", !.closed = FALSE]

\* The except/finally of process(): the error view is shown, the slot is
\* released, nothing is deleted.
Fail(j) == [release_video_slot(j) EXCEPT !.pc = "failed", !.closed = FALSE]

\* One cache read by the pipeline at the present time.
Read(fs) == FilesAfterRead(fs, Fp, now)
Stage(fs, name) == get_stage(fs, Fp, name, now)
Save(fs, name, data) == save_stage(fs, Fp, name, data, now)

\* Every stage a run of this submission writes, and every segment result,
\* is in the cache.
AllCached(cache, cfg) ==
    /\ cache.exists
    /\ cache.stages[VideoStage].present
    /\ cache.stages[SegmentsStage].present
    /\ LET n == calculate_num_parts_call(cfg.video.size_bytes, cfg.video.duration)
       IN  /\ \A k \in 1..n : cache.parts[k].present
           /\ n > 1 => cache.stages[MergeStage].present
    /\ cfg.slides => cache.stages[SlidesStage].present
    /\ cfg.aai_key => /\ cache.stages[UploadStage].present
                      /\ cache.stages[TranscriptIdStage].present

Commit(fs, wrote, j, d) ==
    /\ files' = fs
    /\ lastWrite' = IF wrote THEN [lastWrite EXCEPT ![Fp] = now] ELSE lastWrite
    /\ job' = j
    /\ disk' = d
    /\ UNCHANGED <<now, ret, lastSaved, call, pool, step, keys, calc, fan, rot, sched>>

----------------------------------------------------------------------------
(* The steps of process() *)

\* VideoInputModal.on_submit: a new processor for the same inputs.
Submit ==
    /\ job.pc \in {"idle", "done", "failed"}
    /\ job.run < MaxRuns
    /\ job' = [NewJob(job.cfg) EXCEPT
                !.pc = "queued", !.run = job.run + 1,
                !.resumed = (job.pc = "failed"),
                !.written_stages = IF job.pc = "done" THEN {} ELSE job.written_stages,
                !.written_parts = IF job.pc = "done" THEN {} ELSE job.written_parts,
                !.used = IF job.pc = "done" THEN {} ELSE job.used,
                !.acquired = job.acquired, !.released = job.released]
    /\ UNCHANGED <<now, files, ret, lastSaved, lastWrite, call, pool, disk, step, keys, calc, fan, rot, sched>>

\* VideoErrorView.retry_button: process(retry=True) on the same processor.
Retry ==
    /\ job.pc = "failed"
    /\ ~job.closed
    /\ job.run < MaxRuns
    /\ job' = [job EXCEPT
                !.pc = "queued", !.run = @ + 1, !.resumed = TRUE,
                !.cached_parts = NoParts, !.info = NoInfo, !.num_parts = 0,
                !.parts = <<>>, !.aai = "none", !.transcript = "none",
                !.i = 1, !.summaries = <<>>, !.final = NoData,
                !.calls = {}, !.slept = 0, !.merged = 0, !.match = "none",
                !.gen_last = -1, !.gen_prev = -1,
                !.begin_idle = 0, !.begin_parts = {}, !.begin_merge = FALSE,
                !.begin_all_cached = FALSE]
    /\ UNCHANGED <<now, files, ret, lastSaved, lastWrite, call, pool, disk, step, keys, calc, fan, rot, sched>>

\* VideoErrorView.close_button: processor.cleanup().
Close ==
    /\ job.pc = "failed"
    /\ ~job.closed
    /\ job.run < MaxRuns
    /\ job' = [job EXCEPT !.closed = TRUE, !.temp_files = {}]
    /\ disk' = cleanup_files(disk, job.temp_files)
    /\ UNCHANGED <<now, files, ret, lastSaved, lastWrite, call, pool, step, keys, calc, fan, rot, sched>>

\* Lines 782-823, 852-853: the slot, get_cached_parts, the video stage lookup.
Begin ==
    /\ job.pc = "queued"
    /\ LET cached == get_cached_parts(files, Fp, now)
           f1 == Read(files)
           video_stage == Stage(f1, VideoStage)
           f2 == Read(f1)
           hit == IF video_stage.present
                  THEN video_stage.data.path \in disk.exists ELSE FALSE
           info == IF hit THEN video_stage.data.info ELSE NoInfo
           j == [acquire_video_slot(job) EXCEPT
                    !.cached_parts = cached,
                    !.info = info,
                    !.num_parts = IF hit
                                  THEN calculate_num_parts_call(info.size_bytes, info.duration)
                                  ELSE 0,
                    !.temp_files = IF hit THEN @ \cup {video_stage.data.path} ELSE @,
                    !.pc = IF hit THEN "lookup" ELSE "download",
                    !.begin_idle = now - lastWrite[Fp],
                    !.begin_parts = {k \in PartNums : files[Fp].parts[k].present},
                    !.begin_merge = files[Fp].stages[MergeStage].present,
                    !.begin_all_cached = AllCached(files[Fp], job.cfg)]
       IN  Commit(f2, FALSE, j, disk)

\* Lines 825-853: download_video, get_video_info, save_stage "video".
Download(outcome) ==
    /\ job.pc = "download"
    /\ LET j0 == [job EXCEPT !.calls = @ \cup {CallDownload}]
       IN  IF outcome = "failed"
           THEN Commit(files, FALSE, Fail(j0), disk)
           ELSE LET info == job.cfg.video
                    fs == Save(files, VideoStage, [path |-> VideoPath, info |-> info])
                    j == [j0 EXCEPT
                            !.info = info,
                            !.num_parts = calculate_num_parts_call(info.size_bytes, info.duration),
                            !.temp_files = @ \cup {VideoPath},
                            !.written_stages = @ \cup {VideoStage},
                            !.pc = "lookup"]
                IN  Commit(fs, TRUE, j, [disk EXCEPT !.exists = @ \cup {VideoPath}])

\* Lines 858-946: the stored transcript, the transcript_<hash> stage, or a
\* new AssemblyAI task.
TranscriptLookup(outcome) ==
    /\ job.pc = "lookup"
    /\ outcome = "failed" => disk.stored = "backup"
    /\ LET fetch == disk.stored = "backup"
           fetched == fetch /\ outcome = "ok"
           look == ~fetched /\ job.cfg.aai_key
           stage == Stage(files, TranscriptStage)
           fs == IF look THEN Read(files) ELSE files
           cached == look /\ stage.present
           found == fetched \/ cached
           j == [job EXCEPT
                    !.calls = IF fetch THEN @ \cup {CallFetchBackup} ELSE @,
                    !.transcript = IF found THEN TheTranscript ELSE "none",
                    !.self_transcript = IF found THEN TheTranscript ELSE @,
                    !.aai = IF ~found /\ job.cfg.aai_key THEN "pending" ELSE "none",
                    !.pc = "split"]
       IN  Commit(fs, FALSE, j, disk)

\* split_video_task, lines 1037-1061.
SplitTask(outcome) ==
    /\ job.pc = "split"
    /\ LET segments_stage == Stage(files, SegmentsStage)
           f1 == Read(files)
           hit == IF segments_stage.present
                  THEN PathsOf(segments_stage.data.parts) \subseteq disk.exists
                  ELSE FALSE
       IN  IF hit
           THEN /\ outcome = "ok"
                /\ Commit(f1, FALSE,
                          [job EXCEPT !.parts = segments_stage.data.parts, !.pc = "slides"],
                          disk)
           ELSE IF job.num_parts > 1 /\ outcome = "failed"
           THEN Commit(f1, FALSE, Fail(job), disk)
           ELSE /\ outcome = "ok"
                /\ LET parts == IF job.num_parts > 1
                                THEN split_video(VideoPath, job.num_parts, job.info.duration)
                                ELSE single_part(VideoPath, job.info.duration)
                       made == IF job.num_parts > 1 THEN PathsOf(parts) ELSE {}
                       j == [job EXCEPT
                                !.parts = parts,
                                !.temp_files = @ \cup made,
                                !.written_stages = @ \cup {SegmentsStage},
                                !.pc = "slides"]
                   IN  Commit(Save(f1, SegmentsStage, [parts |-> parts]), TRUE, j,
                              [disk EXCEPT !.exists = @ \cup made])

\* Where process() goes after asyncio.gather.
AfterGather(j) == [j EXCEPT !.pc = IF j.aai = "pending" THEN "aai" ELSE "parts"]

\* process_slides_with_retry and process_slides_inner, lines 949-1035.
\*   "ok"        the first attempt succeeds
\*   "continue"  it fails and the user continues without slides
\*   "new_link"  it fails, the user gives a new link, the second attempt succeeds
\*   "cancel"    it fails and the user cancels
SlidesTask(outcome) ==
    /\ job.pc = "slides"
    /\ IF ~job.cfg.slides
       THEN /\ outcome = "ok"
            /\ Commit(files, FALSE, AfterGather(job), disk)
       ELSE LET slides_stage == Stage(files, SlidesStage)
                f1 == Read(files)
                hit == slides_stage.present /\ disk.images
                j0 == [job EXCEPT !.calls = @ \cup {CallDownloadSlides}]
                saved == [j0 EXCEPT !.slide_images = TRUE,
                                    !.written_stages = @ \cup {SlidesStage}]
            IN  IF hit
                THEN /\ outcome = "ok"
                     /\ Commit(f1, FALSE, AfterGather([job EXCEPT !.slide_images = TRUE]), disk)
                ELSE CASE outcome = "ok" ->
                            Commit(Save(f1, SlidesStage, [images |-> TRUE]), TRUE,
                                   AfterGather(saved), [disk EXCEPT !.images = TRUE])
                       [] outcome = "continue" ->
                            Commit(f1, FALSE, AfterGather([j0 EXCEPT !.slide_images = FALSE]), disk)
                       [] outcome = "new_link" ->
                            LET f2 == clear_stage(f1, Fp, SlidesStage, now)
                                f3 == Read(f2)
                            IN  Commit(Save(f3, SlidesStage, [images |-> TRUE]), TRUE,
                                       AfterGather(saved), [disk EXCEPT !.images = TRUE])
                       [] outcome = "cancel" ->
                            Commit(f1, FALSE, Fail(j0), disk)

\* transcribe_assemblyai (lines 913-939) around transcribe_file
\* (assemblyai_transcript.py:267-367), and the await of lines 1074-1082.
\*   "upload failed" / "start failed" / "poll failed"   the task raises there
\*   "ok"        transcript returned, no archive upload or the upload fails
\*   "archived"  transcript returned and archived with a backup_url
AaiTask(outcome) ==
    /\ job.pc = "aai"
    /\ LET upload_stage == Stage(files, UploadStage)
           f1 == Read(files)
           need_upload == ~upload_stage.present
           up_failed == need_upload /\ outcome = "upload failed"
           f2 == IF need_upload /\ ~up_failed
                 THEN Save(f1, UploadStage, [upload_url |-> "url"]) ELSE f1
           tid_stage == Stage(f2, TranscriptIdStage)
           f3 == IF up_failed THEN f2 ELSE Read(f2)
           need_start == ~up_failed /\ ~tid_stage.present
           start_failed == need_start /\ outcome = "start failed"
           f4 == IF need_start /\ ~start_failed
                 THEN Save(f3, TranscriptIdStage, [transcript_id |-> "tid"]) ELSE f3
           polled == ~up_failed /\ ~start_failed
           good == polled /\ outcome \in {"ok", "archived"}
           is_new == good /\ disk.stored = "none"
           archived == is_new /\ outcome = "archived"
           j == [job EXCEPT
                    !.calls = @ \cup (IF need_upload THEN {CallAaiUpload} ELSE {})
                                \cup (IF need_start THEN {CallAaiStart} ELSE {})
                                \cup (IF polled THEN {CallAaiPoll} ELSE {})
                                \cup (IF archived THEN {CallArchive} ELSE {}),
                    !.written_stages =
                        @ \cup (IF need_upload /\ ~up_failed THEN {UploadStage} ELSE {})
                          \cup (IF need_start /\ ~start_failed THEN {TranscriptIdStage} ELSE {}),
                    !.aai = IF good THEN "ok" ELSE "failed",
                    !.transcript = IF good THEN TheTranscript ELSE "none",
                    !.self_transcript = IF good THEN TheTranscript ELSE @,
                    !.pc = "parts"]
           d == [disk EXCEPT !.stored = IF archived THEN "backup"
                                        ELSE IF is_new THEN "entry" ELSE @]
       IN  /\ outcome = "upload failed" => need_upload
           /\ outcome = "start failed" => need_start
           /\ outcome = "archived" => disk.stored = "none"
           /\ Commit(f4, f4 # f1, j, d)

\* One pass of the per-part loop up to its await of
\* generate_lecture_summary, lines 1102-1134: a cached part is appended and
\* the loop goes on; else the part is uploaded, the prompt is built from the
\* summaries so far and the call is made.
ProcessPart(outcome) ==
    /\ job.pc = "parts"
    /\ job.i <= Len(job.parts)
    /\ LET part_num == job.i
           part == job.parts[part_num]
           next_pc == IF part_num < Len(job.parts) THEN "parts" ELSE "merge"
       IN  IF job.cached_parts[part_num].present
           THEN /\ outcome = "ok"
                /\ Commit(files, FALSE,
                          [job EXCEPT
                              !.summaries = Append(@, job.cached_parts[part_num].summary),
                              !.i = @ + 1, !.pc = next_pc],
                          cleanup_files(disk, {part.path}))
           ELSE LET uploaded == part.path \in disk.exists /\ outcome # "upload failed"
                    j1 == [job EXCEPT !.calls = @ \cup {CallUpload(part_num)}]
                    prompt == Prompt(part_num, part.start_seconds,
                                     transcript_segment(job.transcript, job.parts, part_num),
                                     job.summaries)
                    j2 == [j1 EXCEPT !.calls = @ \cup {CallGenerate(part_num)},
                                     !.used = @ \cup {job.transcript},
                                     !.gen_prev = job.gen_last,
                                     !.gen_last = job.slept,
                                     !.in_flight = @ \cup {[part_num |-> part_num,
                                                            prompt |-> prompt]},
                                     !.pc = "generating"]
                IN  IF uploaded
                    THEN Commit(files, FALSE, j2, disk)
                    ELSE Commit(files, FALSE, Fail(j1), disk)

\* A loop that goes from one part to the next without waiting.
waits_after_part_never(part_num, parts) == FALSE

\* if part_num < len(parts): await asyncio.sleep(RATE_LIMIT_WAIT)
waits_after_part(part_num, parts) == part_num < Len(parts)

\* The rest of the pass, lines 1136-1157: generate_lecture_summary returns
\* or raises; the summary is saved with save_part_summary, appended, the part
\* file deleted, and the loop sleeps RATE_LIMIT_WAIT before the next part.
GenerateReturns(outcome) ==
    /\ job.pc = "generating"
    /\ \E c \in job.in_flight :
         LET part_num == c.part_num
             part == job.parts[part_num]
             next_pc == IF part_num < Len(job.parts) THEN "parts" ELSE "merge"
             j0 == [job EXCEPT !.in_flight = @ \ {c}]
             summary == generate_lecture_summary(part.path, c.prompt)
         IN  IF outcome = "generate failed"
             THEN Commit(files, FALSE, Fail(j0), disk)
             ELSE Commit(save_part_summary(files, Fp, part_num, summary,
                                           part.start_seconds, now),
                         TRUE,
                         [j0 EXCEPT
                             !.summaries = Append(@, summary),
                             !.written_parts = @ \cup {part_num},
                             !.temp_files = @ \ {part.path},
                             !.slept = IF waits_after_part(part_num, job.parts)
                                       THEN @ + RATE_LIMIT_WAIT ELSE @,
                             !.i = @ + 1, !.pc = next_pc],
                         cleanup_files(disk, {part.path}))

\* A merge condition that also merges a single summary.
needs_merge_always(summaries) == Len(summaries) >= 1

\* elif len(summaries) > 1 (line 1170)
needs_merge(summaries) == Len(summaries) > 1

\* Stage 4, lines 1163-1195.
Merge(outcome) ==
    /\ job.pc = "merge"
    /\ LET merge_cache == Stage(files, MergeStage)
           f1 == Read(files)
       IN  IF merge_cache.present
           THEN /\ outcome = "ok"
                /\ Commit(f1, FALSE,
                          [job EXCEPT !.final = merge_cache.data.result, !.pc = "deliver"],
                          disk)
           ELSE IF needs_merge(job.summaries)
           THEN LET j0 == [job EXCEPT !.slept = @ + RATE_LIMIT_WAIT,
                                      !.calls = @ \cup {CallMerge},
                                      !.merged = @ + 1,
                                      !.used = @ \cup {job.self_transcript}]
                    final_summary == merge_summaries(job.summaries,
                                                     full_transcript(job.self_transcript))
                IN  IF outcome = "failed"
                    THEN Commit(f1, FALSE, Fail(j0), disk)
                    ELSE Commit(Save(f1, MergeStage, [result |-> final_summary]), TRUE,
                                [j0 EXCEPT !.final = final_summary,
                                           !.written_stages = @ \cup {MergeStage},
                                           !.pc = "deliver"],
                                disk)
           ELSE /\ outcome = "ok"
                /\ Commit(f1, FALSE,
                          [job EXCEPT !.final = job.summaries[1], !.pc = "deliver"],
                          disk)

\* Stages 4.5 to 6 and the end of process(), lines 1200-1356.  self.pdf_path
\* is read at line 1215 and assigned nowhere: the slide matching raises
\* inside its try and the summary goes out without it, so the slide_match
\* stage is read and never written.
Deliver(outcome) ==
    /\ job.pc = "deliver"
    /\ LET slide_match_cache == Stage(files, SlideMatchStage)
           f1 == IF job.slide_images THEN Read(files) ELSE files
           final_summary == IF job.slide_images /\ slide_match_cache.present
                            THEN slide_match_cache.data.result ELSE job.final
           j0 == [job EXCEPT !.final = final_summary,
                             !.match = IF ~job.slide_images THEN "none"
                                       ELSE IF slide_match_cache.present THEN "cached"
                                       ELSE "failed"]
       IN  IF outcome = "send failed"
           THEN Commit(f1, FALSE, Fail(j0), disk)
           ELSE Commit(clear_pipeline_cache(f1, Fp), FALSE,
                       [release_video_slot(j0) EXCEPT !.pc = "done", !.temp_files = {}],
                       [cleanup_files(disk, job.temp_files) EXCEPT
                           !.images = IF job.slide_images THEN FALSE ELSE @])

\* Time passes, before, between or after the steps of a run.
PipelineTick ==
    /\ now < MaxNow
    /\ now' = now + TickSeconds
    /\ UNCHANGED <<files, ret, lastSaved, lastWrite, call, pool, job, disk, step, keys, calc, fan, rot, sched>>

InitPipeline ==
    /\ CacheInit
    /\ call = IdleCall
    /\ pool = NoPool
    /\ \E cfg \in Configs : job = NewJob(cfg)
    /\ disk = NewDisk
    /\ Unused

NextPipeline ==
    \/ Submit
    \/ Retry
    \/ Close
    \/ Begin
    \/ \E o \in {"ok", "failed"} : Download(o)
    \/ \E o \in {"ok", "failed"} : TranscriptLookup(o)
    \/ \E o \in {"ok", "failed"} : SplitTask(o)
    \/ \E o \in {"ok", "continue", "new_link", "cancel"} : SlidesTask(o)
    \/ \E o \in {"upload failed", "start failed", "poll failed", "ok", "archived"} : AaiTask(o)
    \/ \E o \in {"ok", "upload failed"} : ProcessPart(o)
    \/ \E o \in {"ok", "generate failed"} : GenerateReturns(o)
    \/ \E o \in {"ok", "failed"} : Merge(o)
    \/ \E o \in {"ok", "send failed"} : Deliver(o)
    \/ PipelineTick

SpecPipeline == InitPipeline /\ [][NextPipeline]_vars

----------------------------------------------------------------------------
(* Claims about the pipeline (checked under SpecPipeline)                  *)

\* The summaries of the first k parts in a run that nothing interrupts.
RECURSIVE FreshSummaries(_, _, _)
FreshSummaries(parts, transcript, k) ==
    IF k = 0 THEN <<>>
    ELSE LET before == FreshSummaries(parts, transcript, k - 1)
         IN  Append(before,
                    generate_lecture_summary(
                        parts[k].path,
                        Prompt(k, parts[k].start_seconds,
                               transcript_segment(transcript, parts, k), before)))

\* The final document of a run of the video that nothing interrupts, with
\* the given transcript.
FreshDocument(video, transcript) ==
    LET n == calculate_num_parts_call(video.size_bytes, video.duration)
        parts == IF n > 1 THEN split_video(VideoPath, n, video.duration)
                 ELSE single_part(VideoPath, video.duration)
        summaries == FreshSummaries(parts, transcript, n)
    IN  IF n > 1 THEN merge_summaries(summaries, full_transcript(transcript))
        ELSE summaries[1]

\* The calls of the run so far of the kinds given.
CallsOf(kinds) == {c \in job.calls : c[1] \in kinds}

\* Every generation call since the last completed run was given the
\* transcript the present run has.
SameTranscriptThroughout == job.used \subseteq {job.transcript}

----------------------------------------------------------------------------
(* SpecFallback: one step across its two providers.                        *)
(*   llm.summarize_transcript   llm.py:254-361  Gemini key rotation, GLM   *)
(*   llm.extract_slide_content  llm.py:158-206  GLM alone: both call sites *)
(*       (document_views.py:160, :170) pass neither pdf_path nor user_id   *)
(*       and a non-empty image list, so its key loop is never entered      *)
(* The user has Gemini keys (user_gemini_keys); whether a GLM key is       *)
(* configured is fixed at the start. The key pool is the one of SpecKeys.  *)

LlmSummarize == "llm.summarize_transcript"
LlmExtract == "llm.extract_slide_content"
FallbackSteps == {LlmSummarize, LlmExtract}

IdleStep(glm) ==
    [pc |-> "idle",          \* "idle", "gemini", "glm", "returned", "failed"
     fn |-> LlmSummarize,
     glm |-> glm,            \* get_client(guild_id) is not None
     key_attempt |-> 0,      \* index of the key loop
     attempt |-> 0,          \* index of the GLM loop
     cause |-> "none",       \* why the key loop was left: "fatal", "exhausted"
     primary |-> 0,          \* history: calls made to Gemini
     secondary |-> 0,        \* history: calls made to GLM
     slept |-> 0,            \* history: seconds slept between GLM calls
     result |-> "none"]

\* The code after the key loop, up to the GLM loop (llm.py:159-164, 299-305).
AfterGemini(s, cause) ==
    IF ~s.glm
    THEN [s EXCEPT !.pc = "failed", !.cause = cause,
                   !.result = "GLM not configured"]
    ELSE [s EXCEPT !.pc = "glm", !.cause = cause, !.attempt = 0]

\* The step is entered. summarize_transcript starts with the key loop;
\* extract_slide_content, called without pdf_path, starts after it.
StartStep(fn) ==
    /\ step.pc = "idle"
    /\ step' = IF fn = LlmSummarize
               THEN [IdleStep(step.glm) EXCEPT !.pc = "gemini"]
               ELSE AfterGemini([IdleStep(step.glm) EXCEPT !.fn = fn], "none")
    /\ UNCHANGED pool

\* The key loop ends without a call: every pass was rate limited, or
\* get_available_key() has no key left ("break").
KeysExhausted ==
    /\ step.pc = "gemini"
    /\ step.key_attempt >= Len(user_gemini_keys) \/ get_available_key(pool) = NoKey
    /\ step' = AfterGemini(step, "exhausted")
    /\ UNCHANGED pool

\* One pass of the key loop that calls Gemini; outcome is "ok" or the error
\* raised (gemini.summarize_transcript raises after its own attempts).
GeminiStep(outcome) ==
    /\ step.pc = "gemini"
    /\ step.key_attempt < Len(user_gemini_keys)
    /\ get_available_key(pool) # NoKey
    /\ LET key == get_available_key(pool)
           s == [step EXCEPT !.primary = @ + 1]
       IN  IF outcome = "ok"
           THEN /\ pool' = increment_count(pool, key)
                /\ step' = [s EXCEPT !.pc = "returned", !.result = "ok"]
           ELSE IF IsRateLimit(outcome)
           THEN /\ pool' = mark_rate_limited(pool, key)
                /\ step' = [s EXCEPT !.key_attempt = @ + 1]
           ELSE /\ pool' = pool
                /\ step' = AfterGemini(s, "fatal")

\* Is the answer of GLM returned as the result? summarize_transcript tests
\* for an empty summary, extract_slide_content returns the content as it is.
GlmReturns(fn, outcome) ==
    \/ outcome = "ok"
    \/ outcome = "empty" /\ fn = LlmExtract

\* One pass of "for attempt in range(retries)" against GLM.
GlmAttempt(outcome) ==
    /\ step.pc = "glm"
    /\ step.attempt < retries
    /\ LET s == [step EXCEPT !.secondary = @ + 1]
       IN  IF GlmReturns(step.fn, outcome)
           THEN step' = [s EXCEPT !.pc = "returned", !.result = outcome]
           ELSE IF sleeps_after(step.attempt)
           THEN step' = [s EXCEPT !.attempt = @ + 1,
                                  !.slept = @ + backoff(step.attempt)]
           ELSE step' = [s EXCEPT !.pc = "failed", !.attempt = @ + 1,
                                  !.result = outcome]
    /\ UNCHANGED pool

\* The caller has the result; the next step can start.
FinishStep ==
    /\ step.pc \in {"returned", "failed"}
    /\ step' = IdleStep(step.glm)
    /\ UNCHANGED pool

nonFallback == <<now, files, ret, lastSaved, lastWrite, call, job, disk, keys, calc, fan, rot, sched>>

InitFallback ==
    /\ CacheInit
    /\ fan = NoFan
    /\ rot = NoRot
    /\ sched = NoSched
    /\ call = IdleCall
    /\ pool = IdlePool
    /\ job = NoJob
    /\ disk = NoDisk
    /\ \E glm \in BOOLEAN : step = IdleStep(glm)
    /\ keys = NoKeys
    /\ calc = NoCalc

NextFallback ==
    \/ \E fn \in FallbackSteps : StartStep(fn) /\ UNCHANGED nonFallback
    \/ KeysExhausted /\ UNCHANGED nonFallback
    \/ \E o \in {"ok"} \cup Errors : GeminiStep(o) /\ UNCHANGED nonFallback
    \/ \E o \in Outcomes : GlmAttempt(o) /\ UNCHANGED nonFallback
    \/ FinishStep /\ UNCHANGED nonFallback
    \/ DailyReset /\ UNCHANGED <<step>> /\ UNCHANGED nonFallback

SpecFallback == InitFallback /\ [][NextFallback]_vars

----------------------------------------------------------------------------
(* Claims about the provider fallback (checked under SpecFallback)         *)

\* C11: with both providers configured, a step that is reported as failed
\* after a fatal or pool-exhausted outcome on the primary has made exactly
\* one attempt against the secondary provider.
C11_OneSecondaryAttemptBeforeFailure ==
    (step.pc = "failed" /\ step.glm /\ step.cause \in {"fatal", "exhausted"})
        => step.secondary = 1

----------------------------------------------------------------------------
(* Claims about the admission slot (checked under SpecPipeline)            *)

Outside == {"idle", "queued", "done", "failed"}

----------------------------------------------------------------------------
(* SpecPlan: the segment plan of one video.                                *)
(*   video.calculate_num_parts   video.py:53-62                            *)
(*   video.split_video           video.py:65-123                           *)

\* Sizes around the two thresholds, in bytes.
PlanSizes ==
    LET limit == MAX_PART_SIZE_MB * MB
    IN  {0, 1, limit - 1, limit, limit + 1, 2 * limit - 1, 2 * limit,
         2 * limit + 1, 3 * limit, 3 * limit + 1, 4 * limit}

\* Durations get_video_info can report: every mantissa of two binades.
PlanDurations ==
    {m * Pow2(e) : m \in Pow2(MantissaBits - 1)..(Pow2(MantissaBits) - 1), e \in 2..3}

\* get_video_info has answered; nothing is planned yet.
NewPlan(size_bytes, duration) ==
    [pc |-> "info", size_bytes |-> size_bytes, duration |-> duration,
     num_parts |-> 0, parts |-> <<>>]

CalculateNumParts ==
    /\ calc.pc = "info"
    /\ calc' = [calc EXCEPT !.pc = "counted",
                            !.num_parts = calculate_num_parts(calc.size_bytes)]

SplitVideo ==
    /\ calc.pc = "counted"
    /\ calc' = [calc EXCEPT !.pc = "split",
                            !.parts = split_video(VideoPath, calc.num_parts, calc.duration)]

nonPlan == <<now, files, ret, lastSaved, lastWrite, call, pool, job, disk, step, keys, fan, rot, sched>>

InitPlan ==
    /\ CacheInit
    /\ fan = NoFan
    /\ rot = NoRot
    /\ sched = NoSched
    /\ call = IdleCall
    /\ pool = NoPool
    /\ job = NoJob
    /\ disk = NoDisk
    /\ step = NoStep
    /\ keys = NoKeys
    /\ \E size_bytes \in PlanSizes, duration \in PlanDurations :
            calc = NewPlan(size_bytes, duration)

NextPlan ==
    \/ CalculateNumParts /\ UNCHANGED nonPlan
    \/ SplitVideo /\ UNCHANGED nonPlan

SpecPlan == InitPlan /\ [][NextPlan]_vars

----------------------------------------------------------------------------
(* Claims about the segment plan (checked under SpecPlan)                  *)

\* Where a window ends, and the durations of the first n windows added up.
EndOf(w) == float_add(w.start_seconds, w.duration)

RECURSIVE SumDurations(_, _)
SumDurations(parts, n) ==
    IF n = 0 THEN 0 ELSE float_add(SumDurations(parts, n - 1), parts[n].duration)

Distance(x, y) == IF x >= y THEN x - y ELSE y - x

\* The first window starts at 0 and every window starts where the one before
\* it ends; a plan of one part is the whole video from 0.
StartsAtZeroContiguous(parts, input_path, duration) ==
    /\ Len(parts) >= 1
    /\ parts[1].start_seconds = 0
    /\ \A i \in 1..(Len(parts) - 1) : EndOf(parts[i]) = parts[i + 1].start_seconds
    /\ Len(parts) = 1 =>
            parts = <<[path |-> input_path, start_seconds |-> 0, duration |-> duration]>>

C14_PartsFromSizeThresholds ==
    calc.pc \in {"counted", "split"} =>
        LET limit == MAX_PART_SIZE_MB * MB
        IN  /\ calc.num_parts \in 1..3
            /\ calc.num_parts = 1 <=> calc.size_bytes <= limit
            /\ calc.num_parts = 2 <=>
                    (limit < calc.size_bytes /\ calc.size_bytes <= 2 * limit)
            /\ calc.num_parts = 3 <=> calc.size_bytes > 2 * limit

\* A video of exactly twice the limit has been planned as two parts.
C14_Witness ==
    /\ calc.pc = "counted"
    /\ calc.size_bytes = 2 * MAX_PART_SIZE_MB * MB
    /\ calc.num_parts = 2

----------------------------------------------------------------------------
(* Claims about the single-part job (checked under SpecPipeline)           *)

----------------------------------------------------------------------------
(* SpecFingerprint: the cache id of a submission.                          *)
(*   lecture_cache.extract_drive_id      lecture_cache.py:31-47            *)
(*   lecture_cache.generate_slides_key   lecture_cache.py:50-72            *)
(*   lecture_cache.generate_pipeline_id  lecture_cache.py:75-97            *)
(* calc holds one (video_url, slides_url, user_id) triple, submitted any    *)
(* number of times, the upload in /tmp, and every id computed so far.      *)

NoUrl == "None"
DriveFileUrl == "https://drive.google.com/file/d/A1/view"
DriveOpenUrl == "https://drive.google.com/open?id=A1"
DirectUrl == "https://example.com/lecture.mp4"
UploadPath == "/tmp/slides_upload_1_a.pdf"     \* prompt_for_slides, video_views.py:426

VideoUrls == {DriveFileUrl, DriveOpenUrl, DirectUrl}
SlidesUrls == {NoUrl, DriveFileUrl, DirectUrl, UploadPath}
UserIds == {1, 2}

\* The three patterns of extract_drive_id applied to the URLs above;
\* <<>> stands for None.
extract_drive_id(url) ==
    IF url \in {DriveFileUrl, DriveOpenUrl} THEN <<"A1">> ELSE <<>>

\* hashlib.md5(text.encode()).hexdigest()[:n], taken as injective.
md5(text) == <<"md5", text>>

\* os.path.basename and os.path.getsize of the uploaded file: one upload,
\* always with the same bytes.
basename(path) == "slides_upload_1_a.pdf"
getsize(path) == 1024

\* generate_slides_key(slides_url), tmp the set of files that exist in /tmp.
generate_slides_key(slides_url, tmp) ==
    IF slides_url = NoUrl THEN <<"">>
    ELSE IF extract_drive_id(slides_url) # <<>>
    THEN <<"drive", extract_drive_id(slides_url)[1]>>
    ELSE IF slides_url = UploadPath /\ slides_url \in tmp
    THEN <<"file", basename(slides_url), getsize(slides_url)>>
    ELSE md5(slides_url)

\* generate_pipeline_id(video_url, slides_url, user_id)
generate_pipeline_id(video_url, slides_url, user_id, tmp) ==
    LET video_id == IF extract_drive_id(video_url) # <<>>
                    THEN extract_drive_id(video_url)
                    ELSE md5(video_url)
        slides_key == generate_slides_key(slides_url, tmp)
    IN  md5(<<"v", video_id, "s", slides_key, "u", user_id>>)

NewSubmissions(video_url, slides_url, user_id) ==
    [video_url |-> video_url, slides_url |-> slides_url, user_id |-> user_id,
     pc |-> "idle",         \* "prompted": between prompt_for_slides and __init__
     tmp |-> {},            \* the files that exist in /tmp
     held |-> {},           \* the temp_files of the runs under way
     ids |-> {}]            \* history: the ids computed for the triple

\* VideoInputModal.on_submit up to prompt_for_slides: an upload is stored in
\* /tmp (video_views.py:426-430), a link is taken as it is.
PromptForSlides ==
    /\ calc.pc = "idle"
    /\ calc' = [calc EXCEPT
            !.pc = "prompted",
            !.tmp = IF calc.slides_url = UploadPath THEN @ \cup {UploadPath} ELSE @]
    /\ UNCHANGED now

\* VideoLectureProcessor.__init__ computes the cache id of the submission
\* (video_views.py:755); the run starts and takes an upload that exists
\* into its temp_files (964-966).
ComputeId ==
    /\ calc.pc = "prompted"
    /\ calc' = [calc EXCEPT
            !.pc = "idle",
            !.ids = @ \cup {generate_pipeline_id(calc.video_url, calc.slides_url,
                                                 calc.user_id, calc.tmp)},
            !.held = IF calc.slides_url = UploadPath /\ UploadPath \in calc.tmp
                     THEN @ \cup {UploadPath} ELSE @]
    /\ UNCHANGED now

\* A run ends and deletes its temp files (cleanup_files(self.temp_files)),
\* at any time in the submissions that follow it.
CleanupUpload ==
    /\ calc.held # {}
    /\ calc' = [calc EXCEPT !.tmp = @ \ calc.held, !.held = {}]
    /\ UNCHANGED now

\* Wall-clock time passes.
FingerprintTick ==
    /\ now < MaxNow
    /\ now' = now + TickSeconds
    /\ UNCHANGED calc

nonFingerprint == <<files, ret, lastSaved, lastWrite, call, pool, job, disk, step, keys, fan, rot, sched>>

InitFingerprint ==
    /\ CacheInit
    /\ fan = NoFan
    /\ rot = NoRot
    /\ sched = NoSched
    /\ call = IdleCall
    /\ pool = NoPool
    /\ job = NoJob
    /\ disk = NoDisk
    /\ step = NoStep
    /\ keys = NoKeys
    /\ \E video_url \in VideoUrls, slides_url \in SlidesUrls, user_id \in UserIds :
            calc = NewSubmissions(video_url, slides_url, user_id)

NextFingerprint ==
    \/ PromptForSlides /\ UNCHANGED nonFingerprint
    \/ ComputeId /\ UNCHANGED nonFingerprint
    \/ CleanupUpload /\ UNCHANGED nonFingerprint
    \/ FingerprintTick /\ UNCHANGED nonFingerprint

SpecFingerprint == InitFingerprint /\ [][NextFingerprint]_vars

----------------------------------------------------------------------------
(* Claims about the fingerprint (checked under SpecFingerprint)            *)

\* C16: every submission of the same (video_url, slides_url, user_id) triple
\* gets the same id, whatever the time and whatever files exist when it is
\* computed: no two different ids are ever computed for one triple.
C16_SameTripleSameFingerprint ==
    Cardinality(calc.ids) <= 1

----------------------------------------------------------------------------
(* Claims about get_stage, clear_stage and save_stage (checked under Spec) *)

\* C17: get_stage does not raise for a fingerprint that has no cache or for
\* a stage name that was never saved: it returns absent (None).
C17_GetStageAbsentNeverRaises ==
    [][\A c \in ApiReads :
            (/\ GetStage(c[1], c[2])
             /\ ~files[c[1]].exists \/ lastSaved[c[1]][c[2]] = NoData)
                => ret'.val = AbsentStage]_vars

\* get_stage has returned absent for a stage never saved in a cache that exists.
C17_Witness ==
    /\ ret.op = "get_stage"
    /\ files[ret.id].exists
    /\ lastSaved[ret.id][ret.name] = NoData
    /\ ret.val = AbsentStage

\* C18: clear_stage removes the named stage and nothing else: the other
\* stages of the fingerprint, its segment results and the caches of the
\* other fingerprints stay as they were, and clearing a stage or a
\* fingerprint that does not exist changes nothing.
C18_ClearStageRemovesOnlyNamedStage ==
    [][\A c \in ApiReads :
            ClearStage(c[1], c[2]) =>
                /\ \A id \in CacheIds \ {c[1]} : files'[id] = files[id]
                /\ \A n \in StageNames \ {c[2]} :
                        files'[c[1]].stages[n] = files[c[1]].stages[n]
                /\ files'[c[1]].parts = files[c[1]].parts
                /\ files'[c[1]].exists = files[c[1]].exists
                /\ ~files'[c[1]].stages[c[2]].present
                /\ (~files[c[1]].exists \/ ~files[c[1]].stages[c[2]].present)
                        => files' = files]_vars

\* A stage that was stored has been cleared beside another stage, a segment
\* result and another fingerprint's cache, all still there.
C18_Witness ==
    /\ ret.op = "clear_stage"
    /\ ret.id = "fp1"
    /\ ret.val.present
    /\ \E n \in StageNames \ {ret.name} : files["fp1"].stages[n].present
    /\ files["fp1"].parts[1].present
    /\ files["fp2"].stages[VideoStage].present

\* Two cache directories that hold the same stages, payloads and segment
\* results, whatever their timestamps.
SameStored(fs, gs) ==
    \A id \in CacheIds :
        /\ fs[id].exists = gs[id].exists
        /\ fs[id].parts = gs[id].parts
        /\ \A n \in StageNames :
                /\ fs[id].stages[n].present = gs[id].stages[n].present
                /\ fs[id].stages[n].data = gs[id].stages[n].data

\* C19: the payload stored for a (fingerprint, stage) pair is the payload of
\* the most recent save_stage for the pair, and saving the payload that is
\* stored once more leaves the same stages and payloads, timestamps aside.
C19_SaveStageLastWriteWinsIdempotent ==
    /\ [](\A id \in CacheIds, n \in StageNames :
            (files[id].exists /\ files[id].stages[n].present)
                => files[id].stages[n].data = lastSaved[id][n])
    /\ [][\A c \in ApiSaves :
            (/\ SaveStage(c[1], c[2], c[3])
             /\ files[c[1]].exists
             /\ files[c[1]].stages[c[2]].present
             /\ files[c[1]].stages[c[2]].data = c[3])
                => SameStored(files', files)]_vars

\* The video stage holds the second payload, written over the first one
\* later than the cache was created.
C19_Witness ==
    /\ files["fp1"].exists
    /\ files["fp1"].stages[VideoStage].present
    /\ files["fp1"].stages[VideoStage].data = [v |-> "p2"]
    /\ files["fp1"].stages[VideoStage].saved_at > files["fp1"].created_at
    /\ \A n \in StageNames \ {VideoStage} : ~files["fp1"].stages[n].present

----------------------------------------------------------------------------
(* SpecConfig: one user's stored Gemini keys.                              *)
(*   config.get_user_gemini_apis     config.py:172-195                     *)
(*   config.add_user_gemini_api      config.py:215-241                     *)
(*   config.remove_user_gemini_api   config.py:244-265                     *)
(*   config.set_user_gemini_api      config.py:268-286                     *)
(* keys is the user's entry of user_configs.json and the last result.      *)

MAX_GEMINI_KEYS == 5

\* The keys a user may type: one more than fit.
ConfigKeys == {"k1", "k2", "k3", "k4", "k5", "k6"}

\* The user's entry: has_list says whether "gemini_api_keys" is a key of it,
\* gemini_api_key is the single key of the old format (NoKey: not there).
NewUserConfig(old_key) ==
    [has_list |-> FALSE, gemini_api_keys |-> <<>>, gemini_api_key |-> old_key,
     op |-> "none", ok |-> TRUE]

Members(list) == {list[i] : i \in 1..Len(list)}

\* keys.pop(index), index counted from 0
pop(list, index) ==
    [i \in 1..(Len(list) - 1) |-> IF i <= index THEN list[i] ELSE list[i + 1]]

\* The entry after get_user_gemini_apis, which returns its gemini_api_keys:
\* a single key of the old format is moved into the list.
get_user_gemini_apis(cfg) ==
    IF cfg.has_list
    THEN [cfg EXCEPT !.op = "get", !.ok = TRUE]
    ELSE IF cfg.gemini_api_key # NoKey
    THEN [cfg EXCEPT !.has_list = TRUE, !.gemini_api_keys = <<cfg.gemini_api_key>>,
                     !.gemini_api_key = NoKey,
                     !.op = "get", !.ok = TRUE]
    ELSE [cfg EXCEPT !.op = "get", !.ok = TRUE]

\* An add_user_gemini_api whose limit test is len(keys) > MAX_GEMINI_KEYS.
add_user_gemini_api_over(cfg, api_key) ==
    IF Len(cfg.gemini_api_keys) > MAX_GEMINI_KEYS \/ api_key \in Members(cfg.gemini_api_keys)
    THEN [cfg EXCEPT !.op = "add", !.ok = FALSE]
    ELSE [cfg EXCEPT !.has_list = TRUE, !.gemini_api_keys = Append(@, api_key),
                     !.op = "add", !.ok = TRUE]

add_user_gemini_api(cfg, api_key) ==
    IF Len(cfg.gemini_api_keys) >= MAX_GEMINI_KEYS
    THEN [cfg EXCEPT !.op = "add", !.ok = FALSE]        \* (False, limit reached)
    ELSE IF api_key \in Members(cfg.gemini_api_keys)
    THEN [cfg EXCEPT !.op = "add", !.ok = FALSE]        \* (False, key exists)
    ELSE [cfg EXCEPT !.has_list = TRUE, !.gemini_api_keys = Append(@, api_key),
                     !.op = "add", !.ok = TRUE]

remove_user_gemini_api(cfg, index) ==
    IF index < 0 \/ index >= Len(cfg.gemini_api_keys)
    THEN [cfg EXCEPT !.op = "remove", !.ok = FALSE]     \* (False, invalid index)
    ELSE [cfg EXCEPT !.has_list = TRUE, !.gemini_api_keys = pop(@, index),
                     !.op = "remove", !.ok = TRUE]

\* api_key = NoKey stands for None or the empty string.
set_user_gemini_api(cfg, api_key) ==
    [cfg EXCEPT !.has_list = TRUE,
                !.gemini_api_keys = IF api_key # NoKey THEN <<api_key>> ELSE <<>>,
                !.gemini_api_key = NoKey,
                !.op = "set", !.ok = TRUE]

GetKeys == keys' = get_user_gemini_apis(keys)
AddKey(api_key) == keys' = add_user_gemini_api(keys, api_key)
RemoveKey(index) == keys' = remove_user_gemini_api(keys, index)
SetKey(api_key) == keys' = set_user_gemini_api(keys, api_key)

nonConfig == <<now, files, ret, lastSaved, lastWrite, call, pool, job, disk, step, calc, fan, rot, sched>>

InitConfig ==
    /\ CacheInit
    /\ fan = NoFan
    /\ rot = NoRot
    /\ sched = NoSched
    /\ call = IdleCall
    /\ pool = NoPool
    /\ job = NoJob
    /\ disk = NoDisk
    /\ step = NoStep
    /\ calc = NoCalc
    /\ \E old_key \in {NoKey, "k1"} : keys = NewUserConfig(old_key)

NextConfig ==
    \/ GetKeys /\ UNCHANGED nonConfig
    \/ \E api_key \in ConfigKeys : AddKey(api_key) /\ UNCHANGED nonConfig
    \/ \E index \in -1..MAX_GEMINI_KEYS : RemoveKey(index) /\ UNCHANGED nonConfig
    \/ \E api_key \in {NoKey, "k1", "k2"} : SetKey(api_key) /\ UNCHANGED nonConfig

SpecConfig == InitConfig /\ [][NextConfig]_vars

----------------------------------------------------------------------------
(* Claims about the key list (checked under SpecConfig)                    *)

NoDuplicates(list) == \A i, j \in 1..Len(list) : list[i] = list[j] => i = j

\* C20: after any sequence of add, remove and set the list holds at most
\* MAX_GEMINI_KEYS keys and none twice; an add that would exceed the cap or
\* repeat a key, and a remove with an index out of range, return false and
\* leave the list as it was.
C20_KeyListCappedWithoutDuplicates ==
    /\ [](Len(keys.gemini_api_keys) <= MAX_GEMINI_KEYS /\ NoDuplicates(keys.gemini_api_keys))
    /\ [][\A api_key \in ConfigKeys :
            (/\ AddKey(api_key)
             /\ \/ Len(keys.gemini_api_keys) >= MAX_GEMINI_KEYS
                \/ api_key \in Members(keys.gemini_api_keys))
                => ~keys'.ok /\ keys'.gemini_api_keys = keys.gemini_api_keys]_vars
    /\ [][\A index \in -1..MAX_GEMINI_KEYS :
            (/\ RemoveKey(index)
             /\ index < 0 \/ index >= Len(keys.gemini_api_keys))
                => ~keys'.ok /\ keys'.gemini_api_keys = keys.gemini_api_keys]_vars

\* An add has been refused on a full list.
C20_Witness ==
    /\ keys.op = "add"
    /\ ~keys.ok
    /\ Len(keys.gemini_api_keys) = MAX_GEMINI_KEYS

----------------------------------------------------------------------------
(* C21: the per-part loop is sequential (checked under SpecPipeline)       *)

\* The summaries of parts 1..k-1 the run holds are those of the parts of the
\* plan, in part order.
SummariesOfPartsBefore(k) ==
    /\ Len(job.summaries) = k - 1
    /\ \A n \in 1..(k - 1) : job.summaries[n].video = job.parts[n].path

----------------------------------------------------------------------------
(* C22: one merge, after every part (checked under SpecPipeline)           *)

\* The number of parts planned for the video of the submission.
PlannedParts == calculate_num_parts_call(job.cfg.video.size_bytes, job.cfg.video.duration)

\* The run made at most one merge call, made it holding a summary of every
\* part of the plan, and its result went into the cache as the merge stage.
MergeOnceAfterEveryPart ==
    /\ job.merged <= 1
    /\ CallMerge \in job.calls <=> job.merged = 1
    /\ CallMerge \in job.calls =>
          /\ Len(job.parts) = PlannedParts
          /\ SummariesOfPartsBefore(PlannedParts + 1)
    /\ (job.pc = "deliver" /\ CallMerge \in job.calls) =>
          /\ files[Fp].stages[MergeStage].present
          /\ files[Fp].stages[MergeStage].data.result = job.final

\* The run follows a failed one of a plan of several parts, and when it
\* started the cache held a result for every part and none for the merge,
\* and had been written less than the TTL before.
ResumedBeforeMerge ==
    /\ job.resumed
    /\ job.pc \notin {"idle", "queued"}
    /\ PlannedParts > 1
    /\ job.begin_parts = 1..PlannedParts
    /\ ~job.begin_merge
    /\ job.begin_idle < CACHE_EXPIRY_SECONDS

C22_ResumeThatFindsThePartsSkipsThem ==
    (ResumedBeforeMerge /\ \A k \in 1..PlannedParts : job.cached_parts[k].present)
        => CallsOf({"generate"}) = {}

----------------------------------------------------------------------------
(* C24: a part is saved when its call returns (checked under SpecPipeline) *)

\* A run of the fingerprint that starts now would get the summary of part k
\* from get_cached_parts.
Recoverable(k) == get_cached_parts(files, Fp, now)[k].present

\* The parts before k are saved or were taken from the cache when the call
\* for part k is awaited.
EarlierPartsSavedFirst ==
    \A c \in job.in_flight :
        \A k \in 1..(c.part_num - 1) :
            k \in job.written_parts \/ job.cached_parts[k].present

C24_RecoverableBeforeAnyCacheIsOld ==
    (job.pc # "done" /\ now <= CACHE_EXPIRY_SECONDS)
        => \A k \in job.written_parts : Recoverable(k)

----------------------------------------------------------------------------
(* The tasks process() runs side by side before the per-part loop         *)
(* (SpecFanout): transcribe_assemblyai is started with asyncio.create_task, *)
(* process_slides_with_retry and split_video_task are awaited together     *)
(* with asyncio.gather, then the transcription task is awaited. A step is  *)
(* the code of one task between two awaits. Nothing cancels a task: when a *)
(* run fails, the tasks it started run on, also beside those of a retry.   *)
(* The steps are followed at one time: what the cache does as time passes  *)
(* is followed in Spec and SpecPipeline.                                   *)

MaxFanRuns == 2      \* runs of process() followed for one processor
max_retries == 3     \* process_slides_with_retry

TaskKinds == {"split", "slides", "aai"}
TaskIds == (1..MaxFanRuns) \X TaskKinds
Finished == {"returned", "raised"}

FanConfigs == [slides : BOOLEAN, aai_key : BOOLEAN, num_parts : {1, 2}]

\* The processor as process() is entered the first time; the fields after
\* `task` are history.
NewFan(cfg) ==
    [cfg |-> cfg, run |-> 1, pc |-> "begin", part |-> 1, cached |-> {},
     parts_on_disk |-> FALSE,
     task |-> [t \in TaskIds |-> [pc |-> "none", attempt |-> 0]],
     written_stages |-> {},     \* stages saved and not cleared with clear_stage
     written_parts |-> {},      \* part summaries saved
     entered |-> {},            \* runs that reached the per-part loop
     no_slides |-> {},          \* runs whose slides task failed and returned without slides
     waived |-> {}]             \* runs in which the user chose to continue without slides

nonFanout == <<ret, lastSaved, call, pool, job, disk, step, keys, calc, rot, sched>>

\* The step ends with the cache directory fs; wrote: it saved something.
FanCommit(f, fs, wrote) ==
    /\ fan' = f
    /\ files' = fs
    /\ lastWrite' = IF wrote THEN [lastWrite EXCEPT ![Fp] = now] ELSE lastWrite
    /\ UNCHANGED now
    /\ UNCHANGED nonFanout

\* The tasks that were started and have not run yet. The event loop runs
\* them, up to their first await, before it resumes anything that waits.
Ready == {t \in TaskIds : fan.task[t].pc = "start"}

TaskAt(t, kind, pc) ==
    /\ t[2] = kind
    /\ fan.task[t].pc = pc
    /\ pc = "start" \/ Ready = {}

\* A task that has returned or raised.
Ended(pc) == [pc |-> pc, attempt |-> 0]

\* Lines 796-853: get_cached_parts, the video stage, download_video and
\* save_stage "video" when it is not there.
FanBegin ==
    /\ fan.pc = "begin"
    /\ LET cached == get_cached_parts(files, Fp, now)
           f1 == Read(files)
           video_stage == Stage(f1, VideoStage)
           f2 == Read(f1)
           f3 == IF video_stage.present THEN f2
                 ELSE Save(f2, VideoStage, [path |-> VideoPath])
       IN  FanCommit([fan EXCEPT
                        !.pc = "start",
                        !.cached = {k \in PartNums : cached[k].present},
                        !.written_stages = IF video_stage.present THEN @
                                           ELSE @ \cup {VideoStage}],
                     f3, ~video_stage.present)

\* Lines 858-946 and 1068: the transcript_<hash> stage is looked up,
\* transcribe_assemblyai is made a task, and gather starts the other two.
FanStart ==
    /\ fan.pc = "start"
    /\ LET r == fan.run
       IN  FanCommit([fan EXCEPT
                        !.pc = "gather",
                        !.task[<<r, "split">>].pc = "start",
                        !.task[<<r, "slides">>].pc = "start",
                        !.task[<<r, "aai">>].pc =
                            IF fan.cfg.aai_key THEN "start" ELSE "none"],
                     IF fan.cfg.aai_key THEN Read(files) ELSE files, FALSE)

\* A gather that returns when one of its two tasks has returned.
gathered_first(split_pc, slides_pc) == split_pc = "returned" \/ slides_pc = "returned"

\* asyncio.gather(process_slides_with_retry(), split_video_task()) returns
\* when both have returned (lines 1068-1071).
gathered(split_pc, slides_pc) == split_pc = "returned" /\ slides_pc = "returned"

\* process() enters the per-part loop.
EnterLoop(f) == [f EXCEPT !.pc = "loop", !.entered = @ \cup {f.run}]

\* The await of gather: it raises as soon as one of the two raises, and
\* process() shows the error view.
Gather ==
    /\ fan.pc = "gather"
    /\ Ready = {}
    /\ LET split_pc == fan.task[<<fan.run, "split">>].pc
           slides_pc == fan.task[<<fan.run, "slides">>].pc
       IN  IF "raised" \in {split_pc, slides_pc}
           THEN FanCommit([fan EXCEPT !.pc = "failed"], files, FALSE)
           ELSE /\ gathered(split_pc, slides_pc)
                /\ FanCommit(IF fan.task[<<fan.run, "aai">>].pc = "none"
                             THEN EnterLoop(fan)
                             ELSE [fan EXCEPT !.pc = "await_aai"],
                             files, FALSE)

\* Lines 1074-1082: await assemblyai_task; an exception leaves no transcript.
AwaitAai ==
    /\ fan.pc = "await_aai"
    /\ fan.task[<<fan.run, "aai">>].pc \in Finished
    /\ FanCommit(EnterLoop(fan), files, FALSE)

\* One pass of the per-part loop, lines 1102-1157.
FanPart(outcome) ==
    /\ fan.pc = "loop"
    /\ LET k == fan.part
           next == [fan EXCEPT !.part = @ + 1, !.parts_on_disk = FALSE,
                               !.pc = IF k < fan.cfg.num_parts THEN "loop" ELSE "merge"]
       IN  IF k \in fan.cached
           THEN /\ outcome = "ok"
                /\ FanCommit(next, files, FALSE)
           ELSE IF outcome = "failed"
           THEN FanCommit([fan EXCEPT !.pc = "failed", !.part = 1, !.cached = {}],
                          files, FALSE)
           ELSE FanCommit([next EXCEPT !.written_parts = @ \cup {k}],
                          save_part_summary(files, Fp, k, [summary_of |-> k], 0, now),
                          TRUE)

\* Stage 4, lines 1163-1195.
FanMerge(outcome) ==
    /\ fan.pc = "merge"
    /\ LET merge_cache == Stage(files, MergeStage)
           f1 == Read(files)
       IN  IF merge_cache.present \/ fan.cfg.num_parts = 1
           THEN /\ outcome = "ok"
                /\ FanCommit([fan EXCEPT !.pc = "merged"], f1, FALSE)
           ELSE IF outcome = "failed"
           THEN FanCommit([fan EXCEPT !.pc = "failed", !.part = 1, !.cached = {}],
                          f1, FALSE)
           ELSE FanCommit([fan EXCEPT
                              !.pc = "merged",
                              !.written_stages = @ \cup {MergeStage}],
                          Save(f1, MergeStage, [result |-> "merged"]), TRUE)

\* VideoErrorView.retry_button: process(retry=True) on the same processor.
FanRetry ==
    /\ fan.pc = "failed"
    /\ fan.run < MaxFanRuns
    /\ FanCommit([fan EXCEPT !.run = @ + 1, !.pc = "begin"], files, FALSE)

\* split_video_task up to its await, lines 1037-1056; parts_on_disk is
\* os.path.exists of the cached part files.
SplitStart(t) ==
    /\ TaskAt(t, "split", "start")
    /\ LET segments_stage == Stage(files, SegmentsStage)
           f1 == Read(files)
       IN  IF segments_stage.present /\ fan.parts_on_disk
           THEN FanCommit([fan EXCEPT !.task[t].pc = "returned"], f1, FALSE)
           ELSE IF fan.cfg.num_parts > 1
           THEN FanCommit([fan EXCEPT !.task[t].pc = "splitting"], f1, FALSE)
           ELSE FanCommit([fan EXCEPT !.task[t].pc = "returned",
                                      !.parts_on_disk = TRUE,
                                      !.written_stages = @ \cup {SegmentsStage}],
                          Save(f1, SegmentsStage, [parts |-> 1]), TRUE)

\* video.split_video returns or raises, lines 1049-1061.
SplitReturns(t, outcome) ==
    /\ TaskAt(t, "split", "splitting")
    /\ IF outcome = "failed"
       THEN FanCommit([fan EXCEPT !.task[t].pc = "raised"], files, FALSE)
       ELSE FanCommit([fan EXCEPT !.task[t].pc = "returned",
                                  !.parts_on_disk = TRUE,
                                  !.written_stages = @ \cup {SegmentsStage}],
                      Save(files, SegmentsStage, [parts |-> fan.cfg.num_parts]), TRUE)

\* process_slides_inner up to its await (lines 949-966), entered by the
\* task t with the cache directory fs.
process_slides_inner(f, fs, t) ==
    LET slides_stage == Stage(fs, SlidesStage)
    IN  FanCommit([f EXCEPT
                      !.task[t] = IF slides_stage.present THEN Ended("returned")
                                  ELSE [@ EXCEPT !.pc = "downloading"]],
                  Read(fs), FALSE)

\* process_slides_with_retry is entered, lines 978-986.
SlidesStart(t) ==
    /\ TaskAt(t, "slides", "start")
    /\ IF fan.cfg.slides
       THEN process_slides_inner(fan, files, t)
       ELSE FanCommit([fan EXCEPT !.task[t].pc = "returned"], files, FALSE)

\* download_video and pdf_to_images end (lines 964-976): the slides stage
\* is saved, or the error view is shown (lines 987-1013); when the view
\* cannot be shown the task returns without slides.
SlidesDownloaded(t, outcome) ==
    /\ TaskAt(t, "slides", "downloading")
    /\ IF outcome = "failed"
       THEN FanCommit([fan EXCEPT !.task[t].pc = "asking"], files, FALSE)
       ELSE IF outcome = "failed unseen"
       THEN FanCommit([fan EXCEPT !.task[t] = Ended("returned"),
                                  !.no_slides = @ \cup {t[1]}],
                      files, FALSE)
       ELSE FanCommit([fan EXCEPT !.task[t] = Ended("returned"),
                                  !.written_stages = @ \cup {SlidesStage}],
                      Save(files, SlidesStage, [images |-> TRUE]), TRUE)

\* view.wait() returns with the user's choice, lines 1016-1035.
SlidesChoice(t, choice) ==
    /\ TaskAt(t, "slides", "asking")
    /\ LET cleared == choice = "new_link"
           fs == IF cleared THEN clear_stage(files, Fp, SlidesStage, now) ELSE files
           f == [fan EXCEPT !.task[t].attempt = @ + 1,
                            !.written_stages = IF cleared THEN @ \ {SlidesStage} ELSE @]
       IN  CASE choice = "continue" ->
                    FanCommit([fan EXCEPT !.task[t] = Ended("returned"),
                                          !.no_slides = @ \cup {t[1]},
                                          !.waived = @ \cup {t[1]}],
                              files, FALSE)
             [] choice = "cancel" ->
                    FanCommit([fan EXCEPT !.task[t] = Ended("raised")], files, FALSE)
             [] choice \in {"retry", "new_link"} ->
                    IF fan.task[t].attempt + 1 >= max_retries
                    THEN FanCommit([f EXCEPT !.task[t] = Ended("returned"),
                                             !.no_slides = @ \cup {t[1]}],
                                   fs, FALSE)
                    ELSE process_slides_inner(f, fs, t)

\* transcribe_file after the upload url is known
\* (assemblyai_transcript.py:322-334): the transcript id stage is looked up.
after_upload(f, fs, t, wrote) ==
    LET tid_cache == Stage(fs, TranscriptIdStage)
    IN  FanCommit([f EXCEPT
                      !.task[t].pc = IF tid_cache.present THEN "polling" ELSE "starting"],
                  Read(fs), wrote)

\* transcribe_file up to its first await (assemblyai_transcript.py:290-310).
AaiStart(t) ==
    /\ TaskAt(t, "aai", "start")
    /\ LET aai_cache == Stage(files, UploadStage)
           f1 == Read(files)
       IN  IF aai_cache.present
           THEN after_upload(fan, files, t, FALSE)
           ELSE FanCommit([fan EXCEPT !.task[t].pc = "uploading"], f1, FALSE)

\* upload_file returns or raises (assemblyai_transcript.py:310-320).
AaiUploaded(t, outcome) ==
    /\ TaskAt(t, "aai", "uploading")
    /\ IF outcome = "failed"
       THEN FanCommit([fan EXCEPT !.task[t].pc = "raised"], files, FALSE)
       ELSE after_upload([fan EXCEPT !.written_stages = @ \cup {UploadStage}],
                         Save(files, UploadStage, [upload_url |-> "url"]), t, TRUE)

\* start_transcription returns or raises (assemblyai_transcript.py:337-349).
AaiStarted(t, outcome) ==
    /\ TaskAt(t, "aai", "starting")
    /\ IF outcome = "failed"
       THEN FanCommit([fan EXCEPT !.task[t].pc = "raised"], files, FALSE)
       ELSE FanCommit([fan EXCEPT !.task[t].pc = "polling",
                                  !.written_stages = @ \cup {TranscriptIdStage}],
                      Save(files, TranscriptIdStage, [transcript_id |-> "tid"]), TRUE)

\* poll_transcription and get_paragraphs end
\* (assemblyai_transcript.py:351-367), then transcribe_assemblyai.
AaiPolled(t, outcome) ==
    /\ TaskAt(t, "aai", "polling")
    /\ FanCommit([fan EXCEPT !.task[t].pc = IF outcome = "failed" THEN "raised"
                                            ELSE "returned"],
                 files, FALSE)

InitFanout ==
    /\ CacheInit
    /\ call = IdleCall
    /\ pool = NoPool
    /\ job = NoJob
    /\ disk = NoDisk
    /\ step = NoStep
    /\ keys = NoKeys
    /\ calc = NoCalc
    /\ rot = NoRot
    /\ sched = NoSched
    /\ \E cfg \in FanConfigs : fan = NewFan(cfg)

NextFanout ==
    \/ FanBegin
    \/ FanStart
    \/ Gather
    \/ AwaitAai
    \/ \E o \in {"ok", "failed"} : FanPart(o)
    \/ \E o \in {"ok", "failed"} : FanMerge(o)
    \/ FanRetry
    \/ \E t \in TaskIds : SplitStart(t)
    \/ \E t \in TaskIds, o \in {"ok", "failed"} : SplitReturns(t, o)
    \/ \E t \in TaskIds : SlidesStart(t)
    \/ \E t \in TaskIds, o \in {"ok", "failed", "failed unseen"} : SlidesDownloaded(t, o)
    \/ \E t \in TaskIds, c \in {"continue", "retry", "new_link", "cancel"} : SlidesChoice(t, c)
    \/ \E t \in TaskIds : AaiStart(t)
    \/ \E t \in TaskIds, o \in {"ok", "failed"} : AaiUploaded(t, o)
    \/ \E t \in TaskIds, o \in {"ok", "failed"} : AaiStarted(t, o)
    \/ \E t \in TaskIds, o \in {"ok", "failed"} : AaiPolled(t, o)

SpecFanout == InitFanout /\ [][NextFanout]_vars

----------------------------------------------------------------------------
(* C23, C29, C30: the tasks before the loop (checked under SpecFanout)     *)

CanWrite(t) ==
    LET pc == fan.task[t].pc
    IN  CASE t[2] = "split" ->
                IF pc \in {"start", "splitting"} THEN {SegmentsStage} ELSE {}
          [] t[2] = "slides" ->
                IF pc \in {"start", "downloading", "asking"} THEN {SlidesStage} ELSE {}
          [] t[2] = "aai" ->
                IF pc \in {"start", "uploading"} THEN {UploadStage, TranscriptIdStage}
                ELSE IF pc = "starting" THEN {TranscriptIdStage}
                ELSE {}

\* The stage names process() itself can still save.
OrchestratorCanWrite ==
    IF fan.pc \in {"failed", "merged"} THEN {} ELSE {VideoStage, MergeStage}

\* No stage changes in a step but one that the task taking the step, or
\* process() itself, could write.
EveryWriteIsByAnAbleTask ==
    [][\A n \in StageNames :
          files'[Fp].stages[n] # files[Fp].stages[n]
             => \/ n \in OrchestratorCanWrite /\ fan'.task = fan.task
                \/ \E t \in TaskIds : fan'.task[t] # fan.task[t] /\ n \in CanWrite(t)]_vars

\* The tasks of one run, and process(), write different stage names.
TasksOfOneRunWriteDisjointStages ==
    /\ \A t \in TaskIds : CanWrite(t) \cap OrchestratorCanWrite = {}
    /\ \A t1, t2 \in TaskIds :
          (t1 # t2 /\ t1[1] = t2[1]) => CanWrite(t1) \cap CanWrite(t2) = {}

\* The task has run up to an await and waits there.
UnderWay(t) == fan.task[t].pc \notin {"none", "start"} \cup Finished

Quiescent ==
    /\ fan.pc \in {"failed", "merged"}
    /\ \A t \in TaskIds : fan.task[t].pc \in {"none"} \cup Finished

----------------------------------------------------------------------------
(* SpecRotation: the loops that rotate over one user's Gemini keys, run as *)
(* concurrent jobs of that user.  The pool (get_available_key,             *)
(* mark_rate_limited, increment_count, the daily reset) is the one of      *)
(* SpecKeys, modelled from section 4.2 of the specification; its state is  *)
(* kept per user, so the jobs share it.  A step of a job is the code       *)
(* between two awaits: the selection of a key up to the awaited remote     *)
(* call, and the handling of its answer up to the next await.              *)

RotJobs == {1, 2}

\* The loops that use the pool: llm.summarize_transcript (with
\* gemini.summarize_transcript inside), AskCog._process_ask,
\* llm.extract_slide_content, GeminiConfigView.test_all_button.
RotKinds == {"summarize", "ask", "slides", "test"}

\* The first job runs any of the loops; the job beside it is a question of
\* the same user to /ask.
KindsOf(j) == IF j = 1 THEN RotKinds ELSE {"ask"}

InvalidKeyErrors == {"400 api key not valid"}
RotErrors == RateErrors \cup InvalidKeyErrors \cup {"503 unavailable"}

\* "invalid" in error_str and "key" in error_str
IsInvalidKey(error) == error \in InvalidKeyErrors

NoAnswer == [key |-> NoKey, outcome |-> "none"]

IdleRotJob ==
    [kind |-> "none",
     pc |-> "idle",        \* idle, select, calling, sleeping, done
     attempt |-> 0,        \* index of the rotation loop
     inner |-> 0,          \* index of the loop inside gemini.summarize_transcript
     key |-> NoKey,        \* current_key / api_key
     available |-> FALSE,  \* history: was the key available when it was selected
     prev |-> NoAnswer,    \* history: the last answer since the reset, and its key
     used |-> {},          \* history: keys called since the loop began or the reset
     repeated |-> FALSE,   \* history: a key of "used" was selected
     counted |-> FALSE]    \* history: the job has recorded a use of its key

NewRot ==
    [usage |-> [k \in KeySet |-> 0],
     cooled |-> [k \in KeySet |-> FALSE],
     cause |-> [k \in KeySet |-> "none"],   \* history: what the key was marked for
     jobs |-> [j \in RotJobs |-> IdleRotJob]]

nonRotation == <<now, files, ret, lastSaved, lastWrite, call, pool, job, disk, step, keys, calc, fan, sched>>

\* The pool as the operators of SpecKeys see it.
PoolOf(r) == [usage |-> r.usage, cooled |-> r.cooled]

Marked(r, key, why) ==
    LET p == mark_rate_limited(PoolOf(r), key)
    IN  [r EXCEPT !.cooled = p.cooled,
                  !.cause[key] = IF r.cooled[key] THEN @ ELSE why]

Counted(r, key) ==
    [r EXCEPT !.usage = increment_count(PoolOf(r), key).usage]

\* Calls under way with a key.
InFlight(r, key) ==
    Cardinality({j \in RotJobs : r.jobs[j].pc \in {"calling", "sleeping"}
                                 /\ r.jobs[j].key = key})

\* The jobs are alike: the second one is followed beside the first.
MayStart(j) ==
    /\ rot.jobs[j].pc = "idle"
    /\ \A i \in RotJobs : i < j => rot.jobs[i].pc # "idle"

\* A command of the user reaches one of the loops.
RotStart(j, kind) ==
    /\ MayStart(j)
    /\ rot' = [rot EXCEPT !.jobs[j] = [IdleRotJob EXCEPT !.kind = kind, !.pc = "select"]]
    /\ UNCHANGED nonRotation

\* AskRetryView.change_key_button: a key of the pool is marked rate limited
\* without any call, then _process_ask runs again.  get_next_key is not part
\* of the pool's contract; it returns some key of the pool.
ChangeKey(j, key) ==
    /\ MayStart(j)
    /\ rot' = [Marked(rot, key, "change_key_button") EXCEPT
                  !.jobs[j] = [IdleRotJob EXCEPT !.kind = "ask", !.pc = "select"]]
    /\ UNCHANGED nonRotation

\* A loop that goes round without marking the key that was rate limited.
on_error_unmarked(kind, inner, error) ==
    CASE kind = "summarize" /\ sleeps_after(inner) -> "sleep"
      [] kind = "test" -> "next"
      [] IsRateLimit(error) -> "next"
      [] kind = "ask" /\ IsInvalidKey(error) -> "mark"
      [] kind = "ask" -> "raise"
      [] OTHER -> "break"

\* What a loop does with an error of its remote call:
\*   gemini.summarize_transcript sleeps and calls again while attempts are
\*   left and raises its last error after them; llm.summarize_transcript and
\*   extract_slide_content mark the key on a rate limit and go round, and
\*   break on any other error; _process_ask also marks on an invalid key, and
\*   raises any other error; test_all_button goes on to the next key.
on_error(kind, inner, error) ==
    CASE kind = "summarize" /\ sleeps_after(inner) -> "sleep"
      [] kind = "test" -> "next"
      [] IsRateLimit(error) -> "mark"
      [] kind = "ask" /\ IsInvalidKey(error) -> "mark"
      [] kind = "ask" -> "raise"
      [] OTHER -> "break"

\* The key a pass of the loop calls with: test_all_button walks the list of
\* keys, the rotation loops ask the pool.
selected(kind, attempt, r) ==
    IF kind = "test" THEN user_gemini_keys[attempt + 1]
    ELSE get_available_key(PoolOf(r))

\* The head of one pass: "for attempt in range(len(keys))", the selection of
\* the key, and the code up to the awaited call.
Select(j) ==
    /\ rot.jobs[j].pc = "select"
    /\ LET jb == rot.jobs[j]
           key == IF jb.attempt >= Len(user_gemini_keys) THEN NoKey
                  ELSE selected(jb.kind, jb.attempt, rot)
       IN  IF key = NoKey
           THEN rot' = [rot EXCEPT !.jobs[j] = [IdleRotJob EXCEPT !.pc = "done"]]
           ELSE /\ rot.usage[key] + InFlight(rot, key) <= DailyCap   \* calls followed
                /\ rot' = [rot EXCEPT
                    !.jobs[j].pc = "calling",
                    !.jobs[j].key = key,
                    !.jobs[j].inner = 0,
                    !.jobs[j].available = ~rot.cooled[key] /\ rot.usage[key] < DailyCap,
                    !.jobs[j].repeated = @ \/ key \in jb.used,
                    !.jobs[j].used = @ \cup {key}]
    /\ UNCHANGED nonRotation

\* The awaited call answers, and the job runs up to its next await.
Answered(j, outcome) ==
    /\ rot.jobs[j].pc = "calling"
    /\ LET jb == rot.jobs[j]
           todo == IF outcome = "ok" THEN "count"
                   ELSE on_error(jb.kind, jb.inner, outcome)
           r1 == CASE todo = "count" -> Counted(rot, jb.key)
                   [] todo = "mark" -> Marked(rot, jb.key, outcome)
                   [] OTHER -> rot
           last == jb.kind = "test" /\ jb.attempt + 1 >= Len(user_gemini_keys)
           pc == CASE todo = "sleep" -> "sleeping"
                   [] todo \in {"mark", "next"} -> "select"
                   [] todo = "count" /\ jb.kind = "test" /\ ~last -> "select"
                   [] OTHER -> "done"
       IN  rot' = [r1 EXCEPT
                !.jobs[j] =
                    IF pc = "done"
                    THEN [IdleRotJob EXCEPT !.pc = "done", !.kind = jb.kind,
                                            !.key = jb.key,
                                            !.counted = (todo = "count")]
                    ELSE [jb EXCEPT
                            !.pc = pc,
                            !.available = FALSE,
                            !.prev = [key |-> jb.key, outcome |-> outcome],
                            !.counted = (todo = "count"),
                            !.attempt = IF pc = "select" THEN @ + 1 ELSE @]]
    /\ UNCHANGED nonRotation

\* gemini.summarize_transcript: await asyncio.sleep(5 * (attempt + 1)) is
\* over, the next attempt calls with the same client.
Wake(j) ==
    /\ rot.jobs[j].pc = "sleeping"
    /\ rot' = [rot EXCEPT !.jobs[j].pc = "calling",
                          !.jobs[j].inner = @ + 1]
    /\ UNCHANGED nonRotation

\* The loop has returned or raised; the user may send the next command.
RotFinish(j) ==
    /\ rot.jobs[j].pc = "done"
    /\ rot' = [rot EXCEPT !.jobs[j] = IdleRotJob]
    /\ UNCHANGED nonRotation

\* The daily reset boundary passes: every key is available, counts restart.
RotReset ==
    /\ \E k \in KeySet : rot.usage[k] > 0 \/ rot.cooled[k]
    /\ rot' = [rot EXCEPT
            !.usage = [k \in KeySet |-> 0],
            !.cooled = [k \in KeySet |-> FALSE],
            !.cause = [k \in KeySet |-> "none"],
            !.jobs = [j \in RotJobs |->
                        [@[j] EXCEPT !.used = {}, !.prev = NoAnswer]]]
    /\ UNCHANGED nonRotation

InitRotation ==
    /\ CacheInit
    /\ call = IdleCall
    /\ pool = NoPool
    /\ job = NoJob
    /\ disk = NoDisk
    /\ step = NoStep
    /\ keys = NoKeys
    /\ calc = NoCalc
    /\ fan = NoFan
    /\ rot = NewRot
    /\ sched = NoSched

NextRotation ==
    \/ \E j \in RotJobs : \E kind \in KindsOf(j) : RotStart(j, kind)
    \/ \E j \in RotJobs, k \in KeySet : ChangeKey(j, k)
    \/ \E j \in RotJobs : Select(j)
    \/ \E j \in RotJobs, o \in {"ok"} \cup RotErrors : Answered(j, o)
    \/ \E j \in RotJobs : Wake(j)
    \/ \E j \in RotJobs : RotFinish(j)
    \/ RotReset

SpecRotation == InitRotation /\ [][NextRotation]_vars

----------------------------------------------------------------------------
(* Claims about the rotation over the keys (checked under SpecRotation)    *)

\* After a rate-limited answer to job jb: the key of that answer is cooled
\* down, the job is not sleeping, and a call it is making is made with
\* another key.
RotatedAtOnce(jb) ==
    jb.prev.outcome \in RateErrors =>
        /\ rot.cooled[jb.prev.key]
        /\ jb.pc # "sleeping"
        /\ jb.pc = "calling" => jb.key # jb.prev.key

\* C25: on a rate-limited response the current key is marked cooled down and
\* the next call is made immediately with the next available key: no backoff
\* sleep and no repeated call with the rate-limited key happens before the
\* rotation (llm.summarize_transcript with gemini.summarize_transcript, and
\* _process_ask).
C25_RateLimitedKeyRotatedAtOnce ==
    \A j \in RotJobs :
        rot.jobs[j].kind \in {"summarize", "ask"} => RotatedAtOnce(rot.jobs[j])

\* The part of C25 that holds: the loop of _process_ask, which calls the
\* provider once per pass, rotates at once.
C25_AskRotatesAtOnce ==
    \A j \in RotJobs :
        rot.jobs[j].kind = "ask" => RotatedAtOnce(rot.jobs[j])

\* The rotation of llm.summarize_transcript does take place, after the
\* attempts of gemini.summarize_transcript: a job that selects again after a
\* rate-limited answer finds the key of that answer cooled down.
C25_SummarizeRotatesAfterItsAttempts ==
    \A j \in RotJobs :
        LET jb == rot.jobs[j]
        IN  jb.kind = "summarize" /\ jb.pc = "select" /\ jb.prev.outcome \in RateErrors
                => rot.cooled[jb.prev.key]

\* The loops that C26 names: _process_ask and extract_slide_content.
PrimaryLoops == {"ask", "slides"}

\* C26: a key that has been marked rate-limited is never selected again
\* before the daily reset, so a rotation loop over a pool of N keys makes at
\* most N primary calls, each with a distinct key that is neither cooling
\* down nor at its daily cap when it is selected, and it stops as soon as
\* the pool yields none.
C26_RotationCallsDistinctAvailableKeys ==
    \A j \in RotJobs :
        LET jb == rot.jobs[j]
        IN  jb.kind \in PrimaryLoops =>
                /\ ~jb.repeated
                /\ jb.pc = "calling" =>
                      /\ jb.key \in KeySet
                      /\ jb.available
                      /\ jb.attempt + 1 <= Len(user_gemini_keys)
                      /\ jb.prev.outcome # "none" => jb.key # jb.prev.key

\* A loop is making its N-th call, with the last key of the pool, every
\* other key having been marked in the loop.
C26_Witness ==
    \E j \in RotJobs :
        LET jb == rot.jobs[j]
        IN  /\ jb.kind \in PrimaryLoops
            /\ jb.pc = "calling"
            /\ jb.attempt + 1 = Len(user_gemini_keys)
            /\ jb.used = KeySet
            /\ jb.prev.outcome \in RateErrors
            /\ rot.cooled[jb.prev.key]

\* Job j, in a rotation loop, records a use of key k in this step.
RecordsUse(j, k) ==
    /\ rot.jobs[j].kind \in RotKinds \ {"test"}
    /\ rot.jobs[j].pc = "calling"
    /\ rot.jobs[j].key = k
    /\ rot'.jobs[j].counted
    /\ rot'.usage[k] = rot.usage[k] + 1

\* C27: two concurrent jobs of the same identity can never both select the
\* same key and together push its usage_count past the daily cap: no job
\* that took its key from the pool records a use beyond the cap.
C27_NoUseRecordedPastTheCap ==
    [][\A j \in RotJobs, k \in KeySet :
            RecordsUse(j, k) => rot'.usage[k] <= DailyCap]_vars

\* C28: a key moves from available to cooling_down only in response to a
\* provider-signalled rate-limit/quota error on a call made with that key,
\* and returns to available only at the daily reset boundary.
C28_CooledOnlyByARateLimitAnswer ==
    \A k \in KeySet : rot.cooled[k] => rot.cause[k] \in RateErrors

\* The part of C28 that holds for the loops of llm.py: they cool a key down
\* only on a rate-limit answer to a call of their own with that key.
C28_LlmLoopsMarkOnlyOnRateLimit ==
    [][\A j \in RotJobs, k \in KeySet :
            /\ rot.jobs[j].kind \in {"summarize", "slides"}
            /\ rot'.jobs[j] # rot.jobs[j]
            /\ ~rot.cooled[k] /\ rot'.cooled[k]
            => /\ rot.jobs[j].pc = "calling"
               /\ rot.jobs[j].key = k
               /\ rot'.cause[k] \in RateErrors]_vars

\* A cooled key becomes available again only in the step of the daily reset.
C28_AvailableAgainOnlyAtReset ==
    [][\A k \in KeySet :
            rot.cooled[k] /\ ~rot'.cooled[k] => \A i \in KeySet : rot'.usage[i] = 0]_vars

----------------------------------------------------------------------------
(* C31: cancel (checked under SpecFanout)                                  *)

\* Run r was cancelled: process_slides_with_retry raises only when the
\* user cancels in SlidesErrorView or the view times out.
Cancelled(r) == fan.task[<<r, "slides">>].pc = "raised"

\* The run that was cancelled is the last one: no retry has begun since.
StoppedByCancel(r) == Cancelled(r) /\ fan.run = r

\* A task is awaiting a call that goes out of the process.
AwaitsRemote == {"downloading", "uploading", "starting", "polling"}

\* Task t is awaiting a call (remote, or ffmpeg) and the call ends in this
\* step.
CallEnds(t) ==
    /\ fan.task[t].pc \in AwaitsRemote \cup {"splitting"}
    /\ fan'.task[t].pc # fan.task[t].pc

C31_CancelledRunNeverEntersTheLoop ==
    \A r \in 1..MaxFanRuns : Cancelled(r) => r \notin fan.entered

----------------------------------------------------------------------------
(* C32: the slides task after a failure (checked under SpecFanout)         *)

C32_CancelProducesNoSummary ==
    \A r \in fan.entered : fan.task[<<r, "slides">>].pc # "raised"

----------------------------------------------------------------------------
(* C33, C36: what a run reports and the slide matching (SpecPipeline)      *)

C33_FailedRunReportsNoSuccess ==
    [][~(job.pc = "failed" /\ job'.pc = "done")]_vars

----------------------------------------------------------------------------
(* C34: the cool-off between the parts (checked under SpecPipeline)        *)

\* Part k was generated by this run.
Fresh(k) == CallGenerate(k) \in job.calls

\* The parts this run has gone through, generated, and followed by another.
WaitedAfter ==
    {k \in 1..(job.i - 1) : Fresh(k) /\ k < Len(job.parts)}

----------------------------------------------------------------------------
(* SpecDigest: VideoLectureProcessor._condense_summaries on the summaries  *)
(* of the parts before the one being generated (video_views.py:1386-1395). *)
(* A summary is the sequence of its lines, which is what                   *)
(* summary.split('\n') makes of it; a line is how it begins and how many   *)
(* characters it has.  calc holds the summaries of the parts generated so  *)
(* far and the digest made of them for the next part.                      *)

max_chars == 2000

\* How a line of a summary begins: a heading, a top-level bold bullet, a
\* sub-heading, an indented bullet, plain text.
LineStarts == {"## ", "- **", "### ", "  - **", "text"}

LineLengths == {50, 1200, 2500}

DigestLines == [starts : LineStarts, len : LineLengths]

MaxSummaryLines == 2
MaxSummaries == 2

SummaryTexts ==
    UNION {[1..n -> DigestLines] : n \in 0..MaxSummaryLines}

\* line.startswith('## ') or line.startswith('- **')
starts_heading_or_bullet(line) == line.starts \in {"## ", "- **"}

\* len('\n'.join(lines))
RECURSIVE joined_len(_)
joined_len(lines) ==
    IF lines = <<>> THEN 0
    ELSE IF Len(lines) = 1 THEN lines[1].len
    ELSE lines[1].len + 1 + joined_len(Tail(lines))

\* The lines of every summary, in the order the two for loops visit them.
RECURSIVE lines_of(_)
lines_of(summaries) ==
    IF summaries = <<>> THEN <<>>
    ELSE Head(summaries) \o lines_of(Tail(summaries))

\* The body of the loops from the line at the head of rest on: a line that
\* is kept is appended, then the length is compared, and the function
\* returns what it has if the length is past max_chars.
RECURSIVE condense_from(_, _, _)
condense_from(rest, lines, limit) ==
    IF rest = <<>> THEN lines
    ELSE IF starts_heading_or_bullet(Head(rest))
         THEN LET appended == Append(lines, Head(rest))
              IN  IF joined_len(appended) > limit
                  THEN appended
                  ELSE condense_from(Tail(rest), appended, limit)
         ELSE condense_from(Tail(rest), lines, limit)

\* _condense_summaries(summaries), max_chars at its default.
condense_lines(summaries) == condense_from(lines_of(summaries), <<>>, max_chars)

NewDigest(summaries) == [pc |-> "summaries", summaries |-> summaries, digest |-> <<>>]

\* context = self._condense_summaries(summaries)   (line 1127)
Condense ==
    /\ calc.pc = "summaries"
    /\ calc' = [calc EXCEPT !.pc = "condensed",
                            !.digest = condense_lines(calc.summaries)]

\* The part is generated and summaries.append(summary) runs (line 1147); the
\* loop goes on to the next part.
AppendSummary(summary) ==
    /\ calc.pc = "condensed"
    /\ Len(calc.summaries) < MaxSummaries
    /\ calc' = NewDigest(Append(calc.summaries, summary))

nonDigest == <<now, files, ret, lastSaved, lastWrite, call, pool, job, disk, step, keys, fan, rot, sched>>

InitDigest ==
    /\ CacheInit
    /\ fan = NoFan
    /\ rot = NoRot
    /\ sched = NoSched
    /\ call = IdleCall
    /\ pool = NoPool
    /\ job = NoJob
    /\ disk = NoDisk
    /\ step = NoStep
    /\ keys = NoKeys
    /\ \E summary \in SummaryTexts : calc = NewDigest(<<summary>>)

NextDigest ==
    \/ Condense /\ UNCHANGED nonDigest
    \/ \E summary \in SummaryTexts : AppendSummary(summary) /\ UNCHANGED nonDigest

SpecDigest == InitDigest /\ [][NextDigest]_vars

----------------------------------------------------------------------------
(* C35: the digest (checked under SpecDigest)                              *)

\* The heading and top-level bullet lines of the summaries, in their order.
KeptLines(summaries) == SelectSeq(lines_of(summaries), starts_heading_or_bullet)

IsPrefix(s, t) == Len(s) <= Len(t) /\ s = SubSeq(t, 1, Len(s))

\* C35: the context digest built from prior segment summaries contains only
\* heading-level and top-level bullet lines in their original order, and its
\* length never exceeds the fixed character budget (2000 characters),
\* whatever the number and length of the prior summaries.
C35_DigestWithinBudget ==
    calc.pc = "condensed" =>
        /\ IsPrefix(calc.digest, KeptLines(calc.summaries))
        /\ joined_len(calc.digest) <= max_chars

\* The part of C35 that holds: the digest is a run of the heading and
\* top-level bullet lines from the first one on, in their order.
C35_HeadingsAndBulletsInOrder ==
    calc.pc = "condensed" => IsPrefix(calc.digest, KeptLines(calc.summaries))

\* What holds of the length: the digest without its last line is within the
\* budget, and a digest past the budget ends the collection.
C35_PastBudgetByOneLine ==
    calc.pc = "condensed" /\ calc.digest # <<>> =>
        joined_len(SubSeq(calc.digest, 1, Len(calc.digest) - 1)) <= max_chars


C36_MatchingAfterTheDocumentWithSlides ==
    job.match # "none" => job.slide_images /\ job.final # NoData

\* No run writes the slide_match stage, so no run finds it.
C36_SlideMatchNeverCached ==
    /\ ~Stage(files, SlideMatchStage).present
    /\ job.match # "cached"

----------------------------------------------------------------------------
(* SpecSegments: the transcript of one video split along its segment plan. *)
(*   video.split_video                           video.py:65-123           *)
(*   time_ranges in process()                    video_views.py:1084-1096  *)
(*   assemblyai_transcript.split_transcript_by_time       :370-389         *)
(*   Transcript.get_segment                                :45-55          *)
(* calc holds the duration, the plan, the paragraphs of the transcript and *)
(* the segment texts.  A paragraph is its start time and its text; times   *)
(* are whole steps of the floats of SpecPlan.                              *)

ParagraphTexts == <<"first paragraph", "second paragraph">>

\* Start times around the video: every step from 0 to one window step past
\* the duration.
StartTimes(duration) == 0..(duration + ulp(duration))

\* Transcripts of a video: one or two paragraphs in the order of their start
\* times.
Transcripts(duration) ==
    {<<[start_time |-> s, text |-> ParagraphTexts[1]]>> : s \in StartTimes(duration)}
    \cup UNION {{<<[start_time |-> s, text |-> ParagraphTexts[1]],
                   [start_time |-> t, text |-> ParagraphTexts[2]]>> :
                        t \in {x \in StartTimes(duration) : x > s}} :
                    s \in StartTimes(duration)}

\* A get_segment whose range takes its end in.
get_segment_closed(paragraphs, start_sec, end_sec) ==
    LET within(p) == p.start_time >= start_sec /\ p.start_time <= end_sec
        segment_paragraphs == SelectSeq(paragraphs, within)
    IN  [k \in 1..Len(segment_paragraphs) |->
            [ts |-> segment_paragraphs[k].start_time,
             text |-> segment_paragraphs[k].text]]

\* Transcript.get_segment(start_sec, end_sec): the paragraphs with
\* start_sec <= start_time < end_sec, one line "[ts] text" for each.
get_segment(paragraphs, start_sec, end_sec) ==
    LET within(p) == p.start_time >= start_sec /\ p.start_time < end_sec
        segment_paragraphs == SelectSeq(paragraphs, within)
    IN  [k \in 1..Len(segment_paragraphs) |->
            [ts |-> segment_paragraphs[k].start_time,
             text |-> segment_paragraphs[k].text]]

\* time_ranges = [(p["start_seconds"], p["start_seconds"] + p["duration"]) ...]
time_ranges_of(parts) ==
    [i \in 1..Len(parts) |->
        <<parts[i].start_seconds, float_add(parts[i].start_seconds, parts[i].duration)>>]

\* split_transcript_by_time(transcript, time_ranges)
split_transcript_by_time(paragraphs, time_ranges) ==
    [i \in 1..Len(time_ranges) |->
        get_segment(paragraphs, time_ranges[i][1], time_ranges[i][2])]

NewSegments(duration, num_parts, paragraphs) ==
    [pc |-> "transcribed", duration |-> duration, num_parts |-> num_parts,
     paragraphs |-> paragraphs, parts |-> <<>>, time_ranges |-> <<>>,
     transcript_segments |-> <<>>]

\* split_video_task has returned the plan.
PlanSegments ==
    /\ calc.pc = "transcribed"
    /\ calc' = [calc EXCEPT
            !.pc = "planned",
            !.parts = split_video(VideoPath, calc.num_parts, calc.duration)]

\* Lines 1084-1090 of process().
SplitTranscript ==
    /\ calc.pc = "planned"
    /\ LET time_ranges == time_ranges_of(calc.parts)
       IN  calc' = [calc EXCEPT
                !.pc = "split",
                !.time_ranges = time_ranges,
                !.transcript_segments =
                    split_transcript_by_time(calc.paragraphs, time_ranges)]

nonSegments == <<now, files, ret, lastSaved, lastWrite, call, pool, job, disk, step, keys, fan, rot, sched>>

InitSegments ==
    /\ CacheInit
    /\ fan = NoFan
    /\ rot = NoRot
    /\ sched = NoSched
    /\ call = IdleCall
    /\ pool = NoPool
    /\ job = NoJob
    /\ disk = NoDisk
    /\ step = NoStep
    /\ keys = NoKeys
    /\ \E duration \in PlanDurations, num_parts \in 1..3 :
        \E paragraphs \in Transcripts(duration) :
            calc = NewSegments(duration, num_parts, paragraphs)

NextSegments ==
    \/ PlanSegments /\ UNCHANGED nonSegments
    \/ SplitTranscript /\ UNCHANGED nonSegments

SpecSegments == InitSegments /\ [][NextSegments]_vars

----------------------------------------------------------------------------
(* C37: the transcript along the plan (checked under SpecSegments)         *)

\* The segments whose text has paragraph p.
SegmentsWith(p) ==
    {i \in 1..Len(calc.transcript_segments) :
        \E k \in 1..Len(calc.transcript_segments[i]) :
            calc.transcript_segments[i][k].text = p.text}

\* The parts whose window [start, start + duration) has the time t.
WindowsWith(t) ==
    {i \in 1..Len(calc.parts) :
        /\ calc.parts[i].start_seconds <= t
        /\ t < EndOf(calc.parts[i])}

----------------------------------------------------------------------------
(* SpecScheduler: services/scheduler.py.  The two JSON files               *)
(* (scheduled_meetings.json, pending_polls.json) are the lists             *)
(* sched.meetings and sched.polls, in file order; every function of the    *)
(* module loads a file, changes the list and writes it back without an     *)
(* await.  run_scheduler is followed from await to await: its pass waits   *)
(* for the join of one meeting after the other (pc "joining"), then for    *)
(* the transcripts of one poll after the other (pc "checking"), then       *)
(* sleeps.  The awaits inside one check (get_transcript_by_id, summarize,  *)
(* delete, send) touch neither file and are followed as part of the check. *)
(* The modals of the meeting cog add meetings and polls at any time.       *)

max_attempts == 6

MaxClock == 2       \* the seconds of the wall clock that are told apart
MaxMeetings == 2    \* meetings scheduled in a behaviour
MaxPolls == 2       \* polls added in a behaviour
MaxJoins == 2       \* join requests followed for one meeting
PollWait == 1       \* poll_after - now when a poll is added, in clock steps

Guild == "guild"

MeetingNumbers == 1..MaxMeetings
PollNumbers == 1..MaxPolls

NoEntry == [n |-> 0, id |-> <<Guild, 0>>, status |-> "none"]

NewSched ==
    [meetings |-> <<>>,        \* scheduled_meetings.json
     polls |-> <<>>,           \* pending_polls.json
     clock |-> 0,              \* datetime.now(), in seconds
     pc |-> "sleeping",        \* run_scheduler: sleeping, joining, checking
     pending_meetings |-> <<>>,  \* what is left of the list the pass loops over
     pending_polls |-> <<>>,
     joins |-> [n \in MeetingNumbers |-> 0],   \* history: join requests per meeting
     checks |-> [n \in PollNumbers |-> 0],     \* history: checks per poll
     raised |-> FALSE,         \* history: a pass has ended in "except Exception"
     done |-> {}]              \* history: meetings whose pass went on after the join

nonScheduler == <<now, files, ret, lastSaved, lastWrite, call, pool, job, disk, step, keys, calc, fan, rot>>

\* add_scheduled: the id is f"{guild_id}_{int(scheduled_time.timestamp())}".
\* n tells the entries apart in the history, it is not in the file.
add_scheduled(meetings, scheduled_time, guild_id) ==
    Append(meetings,
           [n |-> Len(meetings) + 1,
            id |-> <<guild_id, scheduled_time>>,
            scheduled_time |-> scheduled_time,
            status |-> "pending"])

\* get_pending: the pending meetings whose time has come, in file order.
get_pending(meetings, clock) ==
    LET due(m) == m.status = "pending" /\ m.scheduled_time <= clock
    IN  SelectSeq(meetings, due)

\* The first entry with the id, 0 if there is none.
FirstWithId(entries, id) ==
    IF \E i \in 1..Len(entries) : entries[i].id = id
    THEN CHOOSE i \in 1..Len(entries) :
            /\ entries[i].id = id
            /\ \A j \in 1..(i - 1) : entries[j].id # id
    ELSE 0

\* mark_completed: "for m in meetings: if m.get("id") == meeting_id: ...; break"
mark_completed(meetings, meeting_id, status) ==
    LET i == FirstWithId(meetings, meeting_id)
    IN  IF i = 0 THEN meetings
        ELSE [meetings EXCEPT ![i].status = status]

\* add_poll: the id is f"poll_{guild_id}_{int(datetime.now().timestamp())}".
add_poll(polls, guild_id, poll_after, clock) ==
    Append(polls,
           [n |-> Len(polls) + 1,
            id |-> <<guild_id, clock>>,
            poll_after |-> poll_after,
            attempts |-> 0,
            status |-> "pending"])

\* get_pending_polls: the pending polls whose poll_after has come.
get_pending_polls(polls, clock) ==
    LET due(p) == p.status = "pending" /\ p.poll_after <= clock
    IN  SelectSeq(polls, due)

\* update_poll(poll_id, attempts, status); "same" stands for None.
update_poll(polls, poll_id, attempts, status) ==
    LET i == FirstWithId(polls, poll_id)
    IN  IF i = 0 THEN polls
        ELSE [polls EXCEPT
                ![i].attempts = IF attempts = -1 THEN @ ELSE attempts,
                ![i].status = IF status = "same" THEN @ ELSE status]

\* What the pass does with a poll that has been checked (lines 340-352).
after_check(polls, poll, found_new) ==
    IF found_new
    THEN update_poll(polls, poll.id, -1, "completed")
    ELSE LET new_attempts == poll.attempts + 1
         IN  IF new_attempts >= max_attempts
             THEN update_poll(polls, poll.id, new_attempts, "exhausted")
             ELSE update_poll(polls, poll.id, new_attempts, "same")

\* "except Exception as e: logger.error(...)", then the sleep.
Excepted(s) ==
    [s EXCEPT !.pc = "sleeping", !.pending_meetings = <<>>,
              !.pending_polls = <<>>, !.raised = TRUE]

\* Section 2 of the pass: when ten minutes have passed since the last poll
\* check (gate), the pending polls are listed and the first one is awaited;
\* else, and with no poll pending, the pass ends and the loop sleeps.
PollSection(s, gate) ==
    LET pending_polls == IF gate THEN get_pending_polls(s.polls, s.clock) ELSE <<>>
    IN  IF pending_polls = <<>>
        THEN [s EXCEPT !.pc = "sleeping", !.pending_meetings = <<>>,
                       !.pending_polls = <<>>]
        ELSE [s EXCEPT !.pc = "checking", !.pending_meetings = <<>>,
                       !.pending_polls = pending_polls]

\* ScheduleMeetingModal.on_submit: a meeting is scheduled for a time to come.
AddScheduled(scheduled_time) ==
    /\ Len(sched.meetings) < MaxMeetings
    /\ scheduled_time >= sched.clock
    /\ sched' = [sched EXCEPT
            !.meetings = add_scheduled(@, scheduled_time, Guild)]
    /\ UNCHANGED nonScheduler

\* JoinMeetingModal.on_submit: the bot has joined now, a poll is added.
JoinNow ==
    /\ Len(sched.polls) < MaxPolls
    /\ sched' = [sched EXCEPT
            !.polls = add_poll(@, Guild, sched.clock + PollWait, sched.clock)]
    /\ UNCHANGED nonScheduler

\* A second of the wall clock passes.
SchedTick ==
    /\ sched.clock < MaxClock
    /\ sched' = [sched EXCEPT !.clock = @ + 1]
    /\ UNCHANGED nonScheduler

\* The sleep is over: get_pending() and, for its first meeting, the call of
\* add_to_live_meeting.
WakeUp(gate) ==
    /\ sched.pc = "sleeping"
    /\ LET pending_meetings == get_pending(sched.meetings, sched.clock)
       IN  sched' = IF pending_meetings = <<>>
                    THEN PollSection(sched, gate)
                    ELSE [sched EXCEPT !.pc = "joining",
                                       !.pending_meetings = pending_meetings]
    /\ UNCHANGED nonScheduler

JoinOutcomes == {"joined", "not joined", "add_poll raises", "mark_completed raises"}

\* add_to_live_meeting has answered for the meeting at the head of the list:
\* add_poll after a success, mark_completed, and the next meeting or the
\* second section of the pass.  A write of a file that fails raises into the
\* except of the loop.
JoinReturns(outcome, gate) ==
    /\ sched.pc = "joining"
    /\ LET meeting == Head(sched.pending_meetings)
           success == outcome # "not joined"
           polled == IF success /\ outcome # "add_poll raises"
                     THEN add_poll(sched.polls, Guild, sched.clock + PollWait, sched.clock)
                     ELSE sched.polls
           s1 == [sched EXCEPT !.joins[meeting.n] = @ + 1]
           s2 == [s1 EXCEPT
                    !.polls = polled,
                    !.meetings = mark_completed(@, meeting.id,
                                    IF success THEN "completed" ELSE "failed"),
                    !.done = @ \cup {meeting.n},
                    !.pending_meetings = Tail(@)]
       IN  /\ sched.joins[meeting.n] < MaxJoins
           /\ success /\ outcome # "add_poll raises" => Len(sched.polls) < MaxPolls
           /\ sched' =
                IF outcome = "add_poll raises" THEN Excepted(s1)
                ELSE IF outcome = "mark_completed raises"
                THEN Excepted([s1 EXCEPT !.polls = polled])
                ELSE IF s2.pending_meetings = <<>> THEN PollSection(s2, gate)
                ELSE s2
    /\ UNCHANGED nonScheduler

CheckOutcomes == {"found new", "nothing new", "raises"}

\* The check of the poll at the head of the list, from the answer of
\* list_transcripts to the update of the poll (lines 268-352), and the next
\* poll or the end of the pass.  attempts is the one read when the list was
\* made.
CheckReturns(outcome) ==
    /\ sched.pc = "checking"
    /\ LET poll == Head(sched.pending_polls)
           s1 == [sched EXCEPT !.checks[poll.n] = @ + 1]
           s2 == [s1 EXCEPT
                    !.polls = after_check(@, poll, outcome = "found new"),
                    !.pending_polls = Tail(@)]
       IN  /\ sched.checks[poll.n] <= max_attempts
           /\ sched' =
                IF outcome = "raises" THEN Excepted(s1)
                ELSE IF s2.pending_polls = <<>>
                THEN [s2 EXCEPT !.pc = "sleeping"]
                ELSE s2
    /\ UNCHANGED nonScheduler

InitScheduler ==
    /\ CacheInit
    /\ call = IdleCall
    /\ pool = NoPool
    /\ job = NoJob
    /\ disk = NoDisk
    /\ step = NoStep
    /\ keys = NoKeys
    /\ calc = NoCalc
    /\ fan = NoFan
    /\ rot = NoRot
    /\ sched = NewSched

NextScheduler ==
    \/ \E t \in 0..MaxClock : AddScheduled(t)
    \/ JoinNow
    \/ SchedTick
    \/ \E gate \in BOOLEAN : WakeUp(gate)
    \/ \E o \in JoinOutcomes, gate \in BOOLEAN : JoinReturns(o, gate)
    \/ \E o \in CheckOutcomes : CheckReturns(o)

SpecScheduler == InitScheduler /\ [][NextScheduler]_vars

----------------------------------------------------------------------------
(* C38, C39: the scheduler (checked under SpecScheduler)                   *)

\* C38: each scheduled meeting is executed (a join request is sent for it)
\* at most once: after it has been executed its status is completed or
\* failed and get_pending never returns it again, including when two
\* meetings were scheduled for the same guild and time and when a step after
\* the join raises.
C38_EachMeetingExecutedAtMostOnce ==
    /\ \A n \in MeetingNumbers : sched.joins[n] <= 1
    /\ \A i \in 1..Len(sched.meetings) :
            sched.joins[sched.meetings[i].n] > 0 /\ sched.pc # "joining"
                => sched.meetings[i].status \in {"completed", "failed"}

\* Meetings whose id no other meeting has.
OwnId(entries, i) ==
    \A j \in 1..Len(entries) : entries[j].id = entries[i].id => j = i

\* What holds: a meeting with an id of its own, in passes none of which has
\* raised, is executed at most once, and is completed or failed once the
\* pass has gone on after its join.
C38_OnceWithItsOwnIdAndNoRaise ==
    ~sched.raised =>
        \A i \in 1..Len(sched.meetings) :
            OwnId(sched.meetings, i) =>
                /\ sched.joins[sched.meetings[i].n] <= 1
                /\ sched.meetings[i].n \in sched.done
                        => sched.meetings[i].status \in {"completed", "failed"}

\* C39: every transcript poll is checked at most max_attempts (6) times and
\* then leaves the pending state for good: a check that finds a new
\* transcript makes it completed, the 6th unsuccessful check makes it
\* exhausted, and a completed or exhausted poll is never checked again, also
\* when a check raises an error.
C39_PollCheckedAtMostMaxAttempts ==
    \A i \in 1..Len(sched.polls) :
        LET p == sched.polls[i]
        IN  /\ sched.checks[p.n] <= max_attempts
            /\ sched.checks[p.n] = max_attempts /\ sched.pc # "checking"
                    => p.status \in {"completed", "exhausted"}

\* What holds: a poll with an id of its own, in passes none of which has
\* raised, has been checked attempts times while it is pending or exhausted,
\* at most max_attempts times, and is exhausted at max_attempts.
C39_CountedWithItsOwnIdAndNoRaise ==
    ~sched.raised =>
        \A i \in 1..Len(sched.polls) :
            LET p == sched.polls[i]
            IN  OwnId(sched.polls, i) =>
                    /\ sched.checks[p.n] <= max_attempts
                    /\ p.status # "completed" => sched.checks[p.n] = p.attempts
                    /\ p.attempts >= max_attempts => p.status = "exhausted"


\* Two meetings of one guild and time: the second one has been executed
\* twice with no pass raising, and is still pending.
C38_TwinExecutedAgain ==
    /\ ~sched.raised
    /\ Len(sched.meetings) = 2
    /\ sched.meetings[1].id = sched.meetings[2].id
    /\ sched.joins[2] = 2
    /\ sched.meetings[2].status = "pending"

\* Two polls added in one second: the second one has been checked more than
\* max_attempts times with no pass raising, and is still pending with no
\* attempt counted.
C39_TwinCheckedWithoutEnd ==
    /\ ~sched.raised
    /\ Len(sched.polls) = 2
    /\ sched.polls[1].id = sched.polls[2].id
    /\ sched.checks[2] > max_attempts
    /\ sched.polls[2].status = "pending"
    /\ sched.polls[2].attempts = 0

====
